---- MODULE Spec2Model ----
(***************************************************************************)
(* Model of the registration assistant's two stateful cores:               *)
(*   - FormProtector (src/js/formProtector.js): snapshot / clear detection *)
(*     / restore of the eight tracked form fields;                         *)
(*   - RegistrationStrategies (src/unnamed/part_001) with Utils.retry and  *)
(*     OutlookRegistration.register (src/js/outlookRegistration.js).       *)
(* Strings are sequences of one-character strings, so that trim, parseInt, *)
(* padStart, length and concatenation are computed and not assumed.        *)
(***************************************************************************)
EXTENDS Integers, Sequences, FiniteSets, TLC

(***************************************************************************)
(* Strings                                                                 *)
(***************************************************************************)
E == <<>>

\* the value of a property that is not there (JavaScript undefined)
Undefined == <<"<undefined>">>

\* a value that is not a string (a number, an object): truthy, without trim()
NotAString == <<"<object>">>

Digits == <<"0", "1", "2", "3", "4", "5", "6", "7", "8", "9">>

IsDigit(c) == \E i \in 1..10 : Digits[i] = c

DigitVal(c) == (CHOOSE i \in 1..10 : Digits[i] = c) - 1

IsSpace(c) == c = " "

\* !v : undefined and the empty string are falsy
Falsy(v) == v = Undefined \/ v = E

Truthy(v) == ~Falsy(v)

RECURSIVE TrimStart(_)
TrimStart(s) == IF s # E /\ IsSpace(Head(s)) THEN TrimStart(Tail(s)) ELSE s

RECURSIVE TrimEnd(_)
TrimEnd(s) ==
    IF s # E /\ IsSpace(s[Len(s)]) THEN TrimEnd(SubSeq(s, 1, Len(s) - 1)) ELSE s

\* String.prototype.trim
Trim(s) == TrimEnd(TrimStart(s))

\* the value parseInt gives when no digit leads the string
NaN == -1

RECURSIVE LeadingNumber(_, _, _)
LeadingNumber(s, acc, seen) ==
    IF s # E /\ IsDigit(Head(s))
    THEN LeadingNumber(Tail(s), 10 * acc + DigitVal(Head(s)), TRUE)
    ELSE IF seen THEN acc ELSE NaN

\* parseInt(v): leading white space skipped, then the longest digit prefix
ParseInt(v) == IF v = Undefined THEN NaN ELSE LeadingNumber(TrimStart(v), 0, FALSE)

RECURSIVE DecStr(_)
DecStr(n) == IF n < 10 THEN <<Digits[n + 1]>> ELSE DecStr(n \div 10) \o <<Digits[(n % 10) + 1]>>

\* n.toString().padStart(2, '0')
PadStart2(n) == IF Len(DecStr(n)) < 2 THEN <<"0">> \o DecStr(n) ELSE DecStr(n)

IsLeapYear(y) == (y % 4 = 0 /\ y % 100 # 0) \/ y % 400 = 0

\* new Date(year, month, 0).getDate(): the last day of the 1-based month,
\* months beyond 12 rolling over into the following years
DaysInMonth(year, month) ==
    LET y == year + ((month - 1) \div 12)
        m == ((month - 1) % 12) + 1
    IN  IF m = 2 THEN (IF IsLeapYear(y) THEN 29 ELSE 28)
        ELSE IF m \in {4, 6, 9, 11} THEN 30 ELSE 31

\* new Date().getFullYear()
CurrentYear == 2026

(***************************************************************************)
(* FormProtector                                                           *)
(***************************************************************************)
protectedFields ==
    <<"first-name", "last-name", "desired-email", "password",
      "birth-year", "birth-month", "birth-day", "country">>

Fields == {protectedFields[i] : i \in 1..Len(protectedFields)}

VARIABLES
    present,        \* the tracked fields that exist on the page
    live,           \* field.value of every present field
    dayOptions,     \* number of day options in the birth-day select
    savedFormState, \* FormProtector.savedFormState
    pendingDays,    \* queued setTimeout(updateBirthDaysAndRestore, 100)
    lastOp,         \* the operation that ran last, with what it reported
    guarded,        \* the captured values an outside writer has just emptied
    envOps          \* number of page/user operations so far

fpVars == <<present, live, dayOptions, savedFormState, pendingDays, lastOp, guarded, envOps>>

VARIABLES
    smartRetryCount,  \* strategies.smart.retryCount
    stats,            \* stats.attempts / successes / failures
    performance,      \* stats.strategyPerformance
    currentFormData,  \* RegistrationStrategies.currentFormData
    call,             \* the executeStrategy call in progress or last settled
    variants,         \* the three parallel attempts of the aggressive profile
    todayCount,       \* UIManager.incrementTodayCount
    statsReset,       \* resetStats has been called
    calls,            \* executeStrategy calls so far
    perfKeys,         \* Object.keys(stats.strategyPerformance), in insertion order
    recommendation    \* the last recommendStrategy call and what it returned

rsVars ==
    <<smartRetryCount, stats, performance, currentFormData, call, variants,
      todayCount, statsReset, calls, perfKeys, recommendation>>

VARIABLES
    orState,          \* OutlookRegistration.state
    reg,              \* the register() call in progress or last settled
    registrations     \* register() calls so far

orVars == <<orState, reg, registrations>>

VARIABLES
    heap,             \* the objects in memory, by identity
    savedRef,         \* the object FormProtector.savedFormState refers to
    statsRef,         \* the object RegistrationStrategies.stats refers to
    held,             \* the objects a caller holds a reference to
    lastCall          \* the accessor called last, its argument and its result

ownVars == <<heap, savedRef, statsRef, held, lastCall>>

VARIABLES
    records,          \* localStorage: the registration history kept under each key
    saves             \* saveRegistrationRecord calls so far, per history

histVars == <<records, saves>>

VARIABLES
    registerState,    \* OutlookRegister.state
    run,              \* the performRegistration call that passed the guard last
    bystander,        \* the last call made while a registration was in flight
    secureLoaded,     \* window.SecureRegistration is there
    performs          \* performRegistration / retryRegistration calls so far

regVars == <<registerState, run, bystander, secureLoaded, performs>>

VARIABLES
    passwordInput,    \* the value of the password field
    strength,         \* what checkPasswordStrength returned for it
    previous          \* the password checked before, and what was returned

pwVars == <<passwordInput, strength, previous>>

VARIABLES
    generated,        \* the form data generateSecureFormData returned last
    generations       \* generateSecureFormData calls so far

genVars == <<generated, generations>>

notOwn == <<histVars, regVars, pwVars, genVars>>

notHist == <<ownVars, regVars, pwVars, genVars>>

notReg == <<ownVars, histVars, pwVars, genVars>>

notPw == <<ownVars, histVars, regVars, genVars>>

notGen == <<ownVars, histVars, regVars, pwVars>>

moreVars == <<ownVars, histVars, regVars, pwVars, genVars>>

vars == <<fpVars, rsVars, orVars, moreVars>>

\* savedFormState[fieldId]
Saved(state, f) == IF f \in DOMAIN state THEN state[f] ELSE Undefined

\* the option values of the birth-day select: the placeholder and 01..n
DayOptionValues(n) == {E} \cup {PadStart2(d) : d \in 1..n}

\* field.value = v : a select keeps v only when one of its options has it
SetValue(f, v, nDays) ==
    IF f = "birth-day" /\ v \notin DayOptionValues(nDays) THEN E ELSE v

\* UIManager / UIController.updateBirthDays, the birth-month change listener
updateBirthDays(lv, nDays) ==
    IF ~({"birth-month", "birth-day", "birth-year"} \subseteq present)
    THEN [live |-> lv, dayOptions |-> nDays]
    ELSE LET month == ParseInt(lv["birth-month"])
             py    == ParseInt(lv["birth-year"])
             year  == IF py = NaN \/ py = 0 THEN CurrentYear ELSE py
         IN  [live |-> [lv EXCEPT !["birth-day"] = E],
              dayOptions |-> IF month # NaN /\ month # 0
                             THEN DaysInMonth(year, month) ELSE 0]

\* saveFieldValue(fieldId, value)
saveFieldValue(state, f, v) ==
    [g \in DOMAIN state \cup {f} |-> IF g = f THEN v ELSE state[g]]

\* the listeners bindProtectionEvents and the UI put on a present field,
\* run for one input event followed by one change event
FireInputChange(st, f) ==
    LET saved1 == saveFieldValue(st.saved, f, st.live[f])
        ui     == IF f = "birth-month"
                  THEN updateBirthDays(st.live, st.dayOptions)
                  ELSE [live |-> st.live, dayOptions |-> st.dayOptions]
    IN  [st EXCEPT !.saved = saved1, !.live = ui.live, !.dayOptions = ui.dayOptions]

\* RestoreField without the trim test: a white-space value is written back
RestoreField_NoTrim(st, f) ==
    LET savedValue == Saved(st.saved, f)
    IN  IF ~st.threw /\ f \in present /\ Truthy(savedValue)
        THEN CHOOSE out \in
                {[st2 EXCEPT !.count = st.count + 1] :
                    st2 \in {FireInputChange(st1, f) :
                        st1 \in {[st EXCEPT !.live[f] = SetValue(f, savedValue, st.dayOptions)]}}} : TRUE
        ELSE st

\* one iteration of the forEach of restoreAllValues; savedValue.trim() is a
\* TypeError for a value that is not a string, which ends the forEach
RestoreField(st, f) ==
    LET savedValue == Saved(st.saved, f)
    IN  IF st.threw THEN st
        ELSE IF f \in present /\ Truthy(savedValue) /\ savedValue = NotAString
        THEN [st EXCEPT !.threw = TRUE]
        ELSE IF f \in present /\ Truthy(savedValue) /\ Trim(savedValue) # E
        THEN CHOOSE out \in
                {[st2 EXCEPT !.count = st.count + 1] :
                    st2 \in {FireInputChange(st1, f) :
                        st1 \in {[st EXCEPT !.live[f] = SetValue(f, savedValue, st.dayOptions)]}}} : TRUE
        ELSE st

\* the forEach from the i-th field on (each iteration's outcome is bound
\* to a value before the next one reads it)
RECURSIVE RestoreFrom(_, _)
RestoreFrom(st, i) ==
    IF i > Len(protectedFields) THEN st
    ELSE CHOOSE out \in {RestoreFrom(nx, i + 1) :
                            nx \in {RestoreField(st, protectedFields[i])}} : TRUE

\* restoreAllValues(): the forEach, then the deferred day refresh; when the
\* forEach has thrown, the fields before the throw stay restored and neither
\* the timeout nor the return is reached
restoreAllValues(lv, nDays, state) ==
    CHOOSE out \in
        {[live |-> st.live, dayOptions |-> st.dayOptions, saved |-> st.saved,
          restoredCount |-> st.count,
          defer |-> ~st.threw /\ Truthy(Saved(st.saved, "birth-month")),
          result |-> ~st.threw /\ st.count > 0,
          threw |-> st.threw] :
            st \in {RestoreFrom(s0, 1) :
                s0 \in {[live |-> lv, dayOptions |-> nDays, saved |-> state, count |-> 0,
                         threw |-> FALSE]}}} : TRUE

\* updateBirthDaysAndRestore()
updateBirthDaysAndRestore(lv, nDays, state) ==
    IF ~({"birth-month", "birth-day", "birth-year"} \subseteq present)
    THEN [live |-> lv, dayOptions |-> nDays]
    ELSE LET month == ParseInt(lv["birth-month"])
             py    == ParseInt(lv["birth-year"])
             year  == IF py = NaN \/ py = 0 THEN CurrentYear ELSE py
             daysInMonth == DaysInMonth(year, month)
             savedDay == Saved(state, "birth-day")
         IN  IF month = NaN \/ month = 0
             THEN [live |-> lv, dayOptions |-> nDays]
             ELSE [live |-> [lv EXCEPT !["birth-day"] =
                        IF Truthy(savedDay) /\ ParseInt(savedDay) # NaN
                           /\ ParseInt(savedDay) <= daysInMonth
                        THEN SetValue("birth-day", savedDay, daysInMonth)
                        ELSE E],
                   dayOptions |-> daysInMonth]

\* !field.value || field.value.trim() === ''
IsBlank(v) == Falsy(v) \/ Trim(v) = E

emptyCount(lv) == Cardinality({f \in present : IsBlank(lv[f])})

totalCount == Cardinality(present)

\* Object.keys(savedFormState). The insertion order matters only while a
\* value is not a string; the snapshots that hold one list the 8 fields in
\* the order of protectedFields and _securityInfo last, and later writes to
\* a key keep its place
ObjectKeys(state) ==
    SelectSeq(protectedFields \o <<"_securityInfo">>, LAMBDA k : k \in DOMAIN state)

\* value && value.trim() !== '' for a string
IsValidValue(v) == v # NotAString /\ Truthy(v) /\ Trim(v) # E

\* hasValidSavedData() throws: some() reaches a value that is not a string
\* before any valid one, and value.trim is not a function
hasValidSavedDataThrows(state) ==
    LET keys == ObjectKeys(state)
    IN  \E i \in 1..Len(keys) :
           /\ state[keys[i]] = NotAString
           /\ \A j \in 1..(i - 1) : ~IsValidValue(state[keys[j]])

\* hasValidSavedData(), when it returns
hasValidSavedData(state) ==
    /\ Cardinality(DOMAIN state) > 0
    /\ ~hasValidSavedDataThrows(state)
    /\ \E f \in DOMAIN state : IsValidValue(state[f])

\* checkFormCleared with the threshold test written >= 0.5
checkFormCleared_AtLeastHalf(lv, state) ==
    /\ totalCount > 0
    /\ 2 * emptyCount(lv) >= totalCount
    /\ hasValidSavedData(state)

\* checkFormCleared(): emptyCount / totalCount > 0.5 (0/0 is NaN, not > 0.5)
checkFormCleared(lv, state) ==
    /\ totalCount > 0
    /\ 2 * emptyCount(lv) > totalCount
    /\ hasValidSavedData(state)

\* checkFormCleared() throws: hasValidSavedData() is reached and throws
checkFormClearedThrows(lv, state) ==
    /\ totalCount > 0
    /\ 2 * emptyCount(lv) > totalCount
    /\ hasValidSavedDataThrows(state)

\* saveAllValues()
saveAllValues(lv, state) ==
    [g \in DOMAIN state \cup present |-> IF g \in present THEN lv[g] ELSE state[g]]


(***************************************************************************)
(* Bounds and input sets of the FormProtector model                        *)
(***************************************************************************)
\* page and user operations explored per behaviour
MaxEnvOps == 2

\* deferred day refreshes that may be queued at once
MaxPending == 2

EmptyState == [f \in {} |-> E]

NoOp ==
    [op |-> "init", S |-> EmptyState, count |-> 0, result |-> FALSE,
     before |-> EmptyState, degraded |-> FALSE, threw |-> FALSE]

TextValues == {E, <<" ">>, <<"a">>, <<"b">>}

FieldValues(f) ==
    CASE f = "birth-year"  -> {E, <<"2", "0", "0", "0">>, <<"2", "0", "0", "1">>}
      [] f = "birth-month" -> {E, <<"0", "2">>, <<"0", "4">>}
      [] f = "birth-day"   -> {E, <<"0", "5">>, <<"5">>, <<"2", "9">>, <<"3", "1">>}
      [] OTHER             -> TextValues

EmptyForm == [f \in Fields |-> E]

FilledForm ==
    [f \in Fields |->
        CASE f = "birth-year"  -> <<"2", "0", "0", "0">>
          [] f = "birth-month" -> <<"0", "2">>
          [] f = "birth-day"   -> <<"2", "9">>
          [] OTHER             -> <<"a">>]

InitialForms == {EmptyForm, FilledForm}

PresentSets == {Fields, Fields \ {"birth-day", "country"}}

\* the sets of fields an outside writer empties in one go
ClearSets ==
    {{protectedFields[i] : i \in 1..k} : k \in 4..8}
        \cup {{protectedFields[i] : i \in k..8} : k \in 4..5}

\* snapshots handed to setSavedData / read from an imported backup
Snapshots ==
    {EmptyState,
     [f \in {"first-name", "password"} |-> IF f = "password" THEN <<" ">> ELSE E],
     [f \in {"first-name", "last-name", "desired-email", "country"} |-> <<"b">>],
     [f \in Fields |-> IF f = "birth-day" THEN <<"3", "1">> ELSE FilledForm[f]],
     [f \in Fields |-> IF f = "birth-day" THEN <<"5">>
                       ELSE IF f = "birth-month" THEN <<"0", "4">>
                       ELSE IF f = "first-name" THEN <<" ", "b">> ELSE FilledForm[f]],
     [f \in Fields \ {"birth-month"} |-> IF f = "last-name" THEN <<" ">> ELSE FilledForm[f]]}

\* snapshots with a value that is not a string: the object
\* SecureRegistration.generateSecureFormData returns, with its _securityInfo
\* member, and a backup file whose birth-year is a JSON number
ObjectSnapshots ==
    {[f \in Fields \cup {"_securityInfo"} |->
         IF f = "_securityInfo" THEN NotAString ELSE FilledForm[f]],
     [f \in Fields |-> IF f = "birth-year" THEN NotAString ELSE FilledForm[f]]}

Restrict(form, P) == [f \in P |-> form[f]]

(***************************************************************************)
(* FormProtector: state after init() and the handlers                      *)
(***************************************************************************)
InitFP ==
    /\ present \in PresentSets
    /\ \E form \in InitialForms :
          /\ live = Restrict(form, present)
          /\ dayOptions = IF form = EmptyForm \/ "birth-day" \notin present THEN 0
                          ELSE DaysInMonth(ParseInt(form["birth-year"]), ParseInt(form["birth-month"]))
    /\ savedFormState = EmptyState
    /\ pendingDays = 0
    /\ lastOp = NoOp
    /\ guarded = EmptyState
    /\ envOps = 0

\* the user types into or picks a value in a tracked field: the value is
\* set, then the input and change listeners run
UserEdit(f, v) ==
    /\ envOps < MaxEnvOps
    /\ f \in present
    /\ LET st0 == [live |-> [live EXCEPT ![f] = SetValue(f, v, dayOptions)],
                   dayOptions |-> dayOptions, saved |-> savedFormState, count |-> 0]
           st  == FireInputChange(st0, f)
       IN  /\ live' = st.live
           /\ dayOptions' = st.dayOptions
           /\ savedFormState' = st.saved
    /\ lastOp' = [NoOp EXCEPT !.op = "edit"]
    /\ guarded' = EmptyState
    /\ envOps' = envOps + 1
    /\ UNCHANGED <<present, pendingDays>>
    /\ UNCHANGED <<rsVars, orVars, moreVars>>

\* another script or a page re-render empties fields; no event is fired
OutsideClear(F) ==
    /\ envOps < MaxEnvOps
    /\ live' = [f \in present |-> IF f \in F THEN E ELSE live[f]]
    /\ lastOp' = [NoOp EXCEPT !.op = "clear", !.before = live]
    /\ guarded' = IF /\ \A f \in present : ~IsBlank(live[f]) /\ Saved(savedFormState, f) = live[f]
                     /\ 2 * Cardinality(F \cap present) > Cardinality(present)
                  THEN live ELSE EmptyState
    /\ envOps' = envOps + 1
    /\ UNCHANGED <<present, dayOptions, savedFormState, pendingDays>>
    /\ UNCHANGED <<rsVars, orVars, moreVars>>

\* the value FormFiller generates for UIController.generatePassword and
\* generateEmail
GeneratedValue == <<"b">>

\* UIController.generatePassword() / generateEmail(): field.value is
\* assigned and no input or change event is dispatched
GenerateField(f) ==
    /\ envOps < MaxEnvOps
    /\ f \in {"password", "desired-email"} \cap present
    /\ live' = [live EXCEPT ![f] = GeneratedValue]
    /\ lastOp' = [NoOp EXCEPT !.op = "generate", !.before = live]
    /\ guarded' = EmptyState
    /\ envOps' = envOps + 1
    /\ UNCHANGED <<present, dayOptions, savedFormState, pendingDays>>
    /\ UNCHANGED <<rsVars, orVars, moreVars>>

\* the 5-second interval of startAutoSave
AutoSaveTick ==
    /\ savedFormState' = saveAllValues(live, savedFormState)
    /\ lastOp' = [NoOp EXCEPT !.op = "autosave"]
    /\ UNCHANGED <<present, live, dayOptions, pendingDays, guarded, envOps>>
    /\ UNCHANGED <<rsVars, orVars, moreVars>>

\* the effect of one run of restoreAllValues on the page and the snapshot
ApplyRestore(r) ==
    /\ live' = r.live
    /\ dayOptions' = r.dayOptions
    /\ savedFormState' = r.saved
    /\ pendingDays' = IF r.defer THEN pendingDays + 1 ELSE pendingDays

\* the 2-second interval of startAutoSave; a throw of checkFormCleared or
\* restoreAllValues leaves the callback and the interval stays set
AssessTick ==
    /\ pendingDays < MaxPending
    /\ \E degraded \in {checkFormCleared(live, savedFormState)} :
       \E thrown \in {checkFormClearedThrows(live, savedFormState)} :
       \E r \in {restoreAllValues(live, dayOptions, savedFormState)} :
           /\ live' = IF degraded THEN r.live ELSE live
           /\ dayOptions' = IF degraded THEN r.dayOptions ELSE dayOptions
           /\ savedFormState' = IF degraded THEN r.saved ELSE savedFormState
           /\ pendingDays' = IF degraded /\ r.defer THEN pendingDays + 1 ELSE pendingDays
           /\ lastOp' = [op |-> IF degraded THEN "autorestore" ELSE "assess",
                         S |-> savedFormState,
                         count |-> IF degraded THEN r.restoredCount ELSE 0,
                         result |-> degraded /\ r.result,
                         before |-> live, degraded |-> degraded,
                         threw |-> thrown \/ (degraded /\ r.threw)]
    /\ UNCHANGED <<present, guarded, envOps>>
    /\ UNCHANGED <<rsVars, orVars, moreVars>>

\* the 100 ms timeout set by restoreAllValues
DayRestoreTimeout ==
    /\ pendingDays > 0
    /\ LET r == updateBirthDaysAndRestore(live, dayOptions, savedFormState)
       IN  /\ live' = r.live
           /\ dayOptions' = r.dayOptions
    /\ pendingDays' = pendingDays - 1
    /\ lastOp' = [lastOp EXCEPT !.op =
                    IF lastOp.op \in {"import", "force", "autorestore"} /\ pendingDays = 1
                    THEN lastOp.op \o "-done" ELSE "days"]
    /\ UNCHANGED <<present, savedFormState, guarded, envOps>>
    /\ UNCHANGED <<rsVars, orVars, moreVars>>

\* forceRestore()
ForceRestore ==
    /\ envOps < MaxEnvOps
    /\ pendingDays < MaxPending
    /\ LET r == restoreAllValues(live, dayOptions, savedFormState)
       IN  /\ ApplyRestore(r)
           /\ lastOp' = [op |-> "force", S |-> savedFormState,
                         count |-> r.restoredCount, result |-> r.result,
                         before |-> live, degraded |-> FALSE, threw |-> r.threw]
    /\ guarded' = EmptyState
    /\ envOps' = envOps + 1
    /\ UNCHANGED present
    /\ UNCHANGED <<rsVars, orVars, moreVars>>

\* setSavedData(data)
SetSavedData(S) ==
    /\ envOps < MaxEnvOps
    /\ savedFormState' = S
    /\ lastOp' = [NoOp EXCEPT !.op = "set", !.S = S]
    /\ guarded' = EmptyState
    /\ envOps' = envOps + 1
    /\ UNCHANGED <<present, live, dayOptions, pendingDays>>
    /\ UNCHANGED <<rsVars, orVars, moreVars>>

\* the reader.onload handler of importFormData: setSavedData(data.formData)
\* followed by restoreAllValues(), whose throw the handler catches
ImportFormData(S) ==
    /\ envOps < MaxEnvOps
    /\ pendingDays < MaxPending
    /\ LET r == restoreAllValues(live, dayOptions, S)
       IN  /\ ApplyRestore(r)
           /\ lastOp' = [op |-> "import", S |-> S,
                         count |-> r.restoredCount, result |-> r.result,
                         before |-> live, degraded |-> FALSE, threw |-> r.threw]
    /\ guarded' = EmptyState
    /\ envOps' = envOps + 1
    /\ UNCHANGED present
    /\ UNCHANGED <<rsVars, orVars, moreVars>>

\* clearSavedData()
ClearSavedData ==
    /\ envOps < MaxEnvOps
    /\ savedFormState' = EmptyState
    /\ lastOp' = [NoOp EXCEPT !.op = "clearsaved"]
    /\ guarded' = EmptyState
    /\ envOps' = envOps + 1
    /\ UNCHANGED <<present, live, dayOptions, pendingDays>>
    /\ UNCHANGED <<rsVars, orVars, moreVars>>

NextFP ==
    \/ \E f \in Fields : \E v \in FieldValues(f) : UserEdit(f, v)
    \/ \E F \in ClearSets : OutsideClear(F)
    \/ \E f \in {"password", "desired-email"} : GenerateField(f)
    \/ AutoSaveTick
    \/ AssessTick
    \/ DayRestoreTimeout
    \/ ForceRestore
    \/ \E S \in Snapshots : SetSavedData(S)
    \/ \E S \in Snapshots : ImportFormData(S)
    \/ ClearSavedData

\* the page with callers that install objects as they come
NextFPObjects ==
    \/ \E f \in Fields : \E v \in FieldValues(f) : UserEdit(f, v)
    \/ \E F \in ClearSets : OutsideClear(F)
    \/ \E f \in {"password", "desired-email"} : GenerateField(f)
    \/ AutoSaveTick
    \/ AssessTick
    \/ DayRestoreTimeout
    \/ ForceRestore
    \/ \E S \in ObjectSnapshots : SetSavedData(S)
    \/ \E S \in ObjectSnapshots : ImportFormData(S)
    \/ ClearSavedData

\* the two intervals and the timeout are timers of the page: each fires
\* again and again for as long as it is set
NextTimers ==
    \/ \E F \in ClearSets : OutsideClear(F)
    \/ AutoSaveTick
    \/ AssessTick
    \/ DayRestoreTimeout

(***************************************************************************)
(* Claims about FormProtector                                              *)
(***************************************************************************)
NonBlank(v) == v # Undefined /\ Trim(v) # E

\* C1: once every tracked field is captured with a non-empty value and an
\* outside writer silently empties more than half of the live fields, the
\* protector eventually writes the pre-clearing value back into every
\* emptied field, whatever the order of the two interval ticks.
C1_ClearedIsRestored ==
    (guarded # EmptyState) ~> (guarded = EmptyState \/ live = guarded)

\* C7: with all 8 fields present the assessment reports degraded exactly
\* when the snapshot has a value that is non-blank after trimming and 5 or
\* more live fields are blank; with an empty or all-blank snapshot it
\* reports false whatever the live values are.
C7_DegradedThreshold ==
    lastOp.op \in {"assess", "autorestore"} =>
        LET blanks == Cardinality({f \in DOMAIN lastOp.before : ~NonBlank(lastOp.before[f])})
            valid  == \E f \in DOMAIN lastOp.S : NonBlank(lastOp.S[f])
        IN  /\ present = Fields => (lastOp.degraded <=> (valid /\ blanks >= 5))
            /\ ~valid => ~lastOp.degraded

C7_Witness ==
    /\ present = Fields
    /\ lastOp.op = "autorestore"
    /\ lastOp.degraded
    /\ Cardinality({f \in Fields : ~NonBlank(lastOp.before[f])}) = 5

\* the restore started by setSavedData(S); restoreAllValues() has run to
\* its end, the deferred day refresh included
RoundTripDone ==
    \/ lastOp.op = "import-done"
    \/ lastOp.op = "import" /\ pendingDays = 0

LowerChars ==
    {"a", "b", "c", "d", "e", "f", "g", "h", "i", "j", "k", "l", "m",
     "n", "o", "p", "q", "r", "s", "t", "u", "v", "w", "x", "y", "z"}

UpperChars ==
    {"A", "B", "C", "D", "E", "F", "G", "H", "I", "J", "K", "L", "M",
     "N", "O", "P", "Q", "R", "S", "T", "U", "V", "W", "X", "Y", "Z"}

\* regex.test(password) for a character class
HasChar(s, class) == \E i \in 1..Len(s) : s[i] \in class

HasDigit(s) == \E i \in 1..Len(s) : IsDigit(s[i])

HasSymbol(s) == \E i \in 1..Len(s) : s[i] \notin LowerChars \cup UpperChars /\ ~IsDigit(s[i])

Bit(b) == IF b THEN 1 ELSE 0

\* a score that rewards a password for having no digit
PasswordScore_DigitFree(password) ==
    IF Falsy(password) THEN 0
    ELSE Bit(Len(password) >= 8) + Bit(Len(password) >= 12)
         + Bit(HasChar(password, LowerChars)) + Bit(HasChar(password, UpperChars))
         + Bit(~HasDigit(password)) + Bit(HasSymbol(password))

\* checkPasswordStrength(password).score
PasswordScore(password) ==
    IF Falsy(password) THEN 0
    ELSE Bit(Len(password) >= 8) + Bit(Len(password) >= 12)
         + Bit(HasChar(password, LowerChars)) + Bit(HasChar(password, UpperChars))
         + Bit(HasDigit(password)) + Bit(HasSymbol(password))

\* checkPasswordStrength(password).level
PasswordLevel(password) ==
    LET score == PasswordScore(password)
    IN  IF score <= 2 THEN "weak"
        ELSE IF score <= 4 THEN "fair"
        ELSE IF score <= 5 THEN "good" ELSE "strong"

\* values handed from one pipeline step to the next, and errors
Val(kind, email, password, message) ==
    [kind |-> kind, email |-> email, password |-> password, message |-> message]

Null == Val("null", E, E, "")

UndefinedVal == Val("undefined", E, E, "")

Err(message) == Val("error", E, E, message)

IsErr(v) == v.kind = "error"

\* `${value}` : undefined is spelled out
ToStr(v) == IF v = Undefined THEN <<"u", "n", "d", "e", "f", "i", "n", "e", "d">> ELSE v

AtOutlook == <<"@", "o", "u", "t", "l", "o", "o", "k", ".", "c", "o", "m">>

Masked == <<"*", "*", "*", "*">>

RequiredFields == <<"desired-email", "password", "first-name", "last-name", "country">>

\* formData[field]
Field(formData, f) == IF f \in DOMAIN formData THEN formData[f] ELSE Undefined

\* RegistrationStrategies.validateFormData(formData)
validateFormData(formData) ==
    IF \E i \in 1..Len(RequiredFields) : Falsy(Field(formData, RequiredFields[i]))
    THEN Err("MissingField")
    ELSE IF Len(formData["desired-email"]) < 3 THEN Err("EmailTooShort")
    ELSE IF PasswordLevel(formData["password"]) = "weak" THEN Err("WeakPassword")
    ELSE Val("validation", formData["desired-email"], formData["password"], "")

\* quickValidate(formData)
quickValidate(formData) ==
    IF Falsy(Field(formData, "desired-email")) \/ Falsy(Field(formData, "password"))
    THEN Err("MissingKeyField")
    ELSE Val("validation", E, E, "")

\* prepareRequest / prepareSmartRequest / prepareAggressiveRequest: the
\* fields of the request the later steps read
prepareRequest(formData) ==
    Val("request", ToStr(Field(formData, "desired-email")) \o AtOutlook,
        Field(formData, "password"), "")

\* the object submitRegistration / submitRegistrationAggressive resolves with
SubmitResponse(requestData) == Val("response", requestData.email, E, "Registered")

\* validateResponse(response): reading .success of undefined is a TypeError
validateResponse(response) ==
    IF response.kind = "undefined" THEN Err("TypeError")
    ELSE IF response.kind # "response" THEN Err("RegistrationFailed")
    ELSE response

\* finalizeRegistration(data): password comes from this.currentFormData
finalizeRegistration(data, cfd) ==
    LET pw == Field(cfd, "password")
    IN  Val("result", data.email, IF Falsy(pw) THEN Masked ELSE pw, data.message)


(***************************************************************************)
(* RegistrationStrategies: state                                           *)
(***************************************************************************)
\* executeStrategy calls explored per behaviour
MaxCalls == 2

\* values of strategies.smart.retryCount explored (5 is the built-in one)
SmartRetryCounts == {0, 2, 5}

\* outcomes of Math.floor(Math.random() * 1000)
RandomInts == {7, 42}

\* the three draws of one generateDataVariants call: all different, all equal
VariantDraws == {<<7, 42, 815>>, <<42, 42, 42>>}

\* messages of the errors a failed submission throws
SubmitErrors == {"EmailExists", "Timeout"}

StrategyNames == {"standard", "smart", "aggressive", "turbo"}

\* the strategies table: the entries the pipelines read
strategies ==
    [standard   |-> [retryCount |-> 3, delayRange |-> <<1000, 3000>>, humanLikeDelay |-> TRUE],
     smart      |-> [retryCount |-> smartRetryCount, delayRange |-> <<2000, 5000>>, humanLikeDelay |-> TRUE],
     aggressive |-> [retryCount |-> 10, delayRange |-> <<500, 2000>>, humanLikeDelay |-> FALSE]]

\* getStrategy(strategyName)
getStrategy(strategyName) ==
    IF strategyName \in DOMAIN strategies THEN strategies[strategyName] ELSE strategies.standard

StandardSteps ==
    <<"validateFormData", "prepareRequest", "submitRegistration",
      "validateResponse", "finalizeRegistration">>

SmartSteps ==
    <<"analyzeOptimalTiming", "validateFormData", "preflightCheck", "prepareSmartRequest",
      "submitRegistrationWithRetry", "validateResponse", "finalizeRegistration">>

AggressiveSteps ==
    <<"quickValidate", "prepareAggressiveRequest", "submitRegistrationAggressive",
      "validateResponse", "finalizeRegistration">>

StepsOf(strategy) ==
    CASE strategy = "smart" -> SmartSteps
      [] strategy = "aggressive" -> AggressiveSteps
      [] OTHER -> StandardSteps

ValidForm ==
    [f \in {"desired-email", "password", "first-name", "last-name", "country"} |->
        CASE f = "desired-email" -> <<"a", "l", "e", "x", "0", "1">>
          [] f = "password"      -> <<"A", "b", "c", "1", "2", "3", "4", "5", "!">>
          [] f = "first-name"    -> <<"A", "l", "e", "x">>
          [] f = "last-name"     -> <<"S", "m", "i", "t", "h">>
          [] OTHER               -> <<"U", "S">>]

\* the form data handed to executeStrategy
Forms ==
    {ValidForm,
     [ValidForm EXCEPT !["password"] = <<"X", "y", "z", "7", "8", "9", "0", "#">>],
     [ValidForm EXCEPT !["desired-email"] = E],
     [ValidForm EXCEPT !["desired-email"] = <<"a", "b">>],
     [ValidForm EXCEPT !["password"] = E],
     [ValidForm EXCEPT !["password"] = <<"a", "b", "c", "d", "e", "f", "g", "h">>],
     [ValidForm EXCEPT !["first-name"] = E],
     [ValidForm EXCEPT !["last-name"] = E],
     [ValidForm EXCEPT !["country"] = E]}

NoFormData == [f \in {} |-> E]

ZeroStats == [attempts |-> 0, successes |-> 0, failures |-> 0]

NoPerformance == [n \in {} |-> ZeroStats]

IdleCall ==
    [st |-> "idle", via |-> "", strategy |-> "", form |-> NoFormData, data |-> NoFormData,
     retryCount |-> 0, i |-> 0, wait |-> "none", carry |-> Null, input |-> Null, k |-> 0,
     ran |-> <<>>, failedAt |-> 0, submits |-> 0, backoffs |-> <<>>, lastError |-> Null,
     thrown |-> Null, pipeline |-> Null, outcome |-> Null, perfBefore |-> ZeroStats,
     failedFirst |-> 0]

\* recommendStrategy has not been called since the last executeStrategy
NoRecommendation ==
    [made |-> FALSE,
     context |-> [networkSpeed |-> "unknown", previousFailures |-> 0, timeOfDay |-> 0,
                  isVpnDetected |-> FALSE],
     performance |-> NoPerformance, keys |-> <<>>, result |-> ""]

NoVariant == [st |-> "none", data |-> NoFormData, ran |-> <<>>, outcome |-> Null]

\* RegistrationStrategies as loaded, smart.retryCount left open
IdleRS ==
    /\ stats = ZeroStats
    /\ performance = NoPerformance
    /\ currentFormData = NoFormData
    /\ call = IdleCall
    /\ variants = [v \in 1..3 |-> NoVariant]
    /\ todayCount = 0
    /\ statsReset = FALSE
    /\ calls = 0
    /\ perfKeys = <<>>
    /\ recommendation = NoRecommendation

\* the table as shipped
ShippedRS == smartRetryCount = 5 /\ IdleRS

\* a caller may have set strategies.smart.retryCount before the first call
InitRS == smartRetryCount \in SmartRetryCounts /\ IdleRS


(***************************************************************************)
(* RegistrationStrategies: executeStrategy, executeSteps and the pipelines *)
(***************************************************************************)
Bump(counters, field) == [counters EXCEPT ![field] = @ + 1]

\* initializeStrategyStats(strategy)
initializeStrategyStats(perf, strategy) ==
    IF strategy \in DOMAIN perf THEN perf
    ELSE [n \in DOMAIN perf \cup {strategy} |-> IF n = strategy THEN ZeroStats ELSE perf[n]]

\* executeStrategy with a catch that leaves the failure counters alone
SettleResult_FailureUncounted(st, perf, strategy, out) ==
    LET known == strategy \in DOMAIN perf
        st1 == IF IsErr(out) THEN st ELSE Bump(st, "successes")
        perf1 == IF ~IsErr(out) /\ known
                 THEN [perf EXCEPT ![strategy] = Bump(@, "successes")] ELSE perf
    IN  [stats |-> st1, performance |-> perf1,
         outcome |-> IF ~known THEN Err("TypeError") ELSE out]

\* the try / catch of executeStrategy once the pipeline has settled with
\* out: a missing strategyPerformance entry makes the ++ throw a TypeError,
\* inside the try (caught) and then inside the catch (not caught)
SettleResult(st, perf, strategy, out) ==
    LET known == strategy \in DOMAIN perf
        failed == IsErr(out) \/ ~known
        st1 == IF IsErr(out) THEN st ELSE Bump(st, "successes")
        perf1 == IF ~IsErr(out) /\ known
                 THEN [perf EXCEPT ![strategy] = Bump(@, "successes")] ELSE perf
        st2 == IF failed THEN Bump(st1, "failures") ELSE st1
        perf2 == IF failed /\ known
                 THEN [perf1 EXCEPT ![strategy] = Bump(@, "failures")] ELSE perf1
    IN  [stats |-> st2, performance |-> perf2,
         outcome |-> IF ~known THEN Err("TypeError") ELSE out]

\* executeStrategy settles: the counters are updated and the promise is
\* resolved with the pipeline's value or rejected with its error
Settled(c, st, perf, out) ==
    LET r == SettleResult(st, perf, c.strategy, out)
    IN  /\ stats' = r.stats
        /\ performance' = r.performance
        /\ call' = [c EXCEPT !.st = IF IsErr(r.outcome) THEN "rejected" ELSE "resolved",
                             !.pipeline = out, !.outcome = r.outcome, !.wait = "none"]

\* executeSteps with a loop that logs a throwing step and goes on
Continue_KeepGoing(c, st, perf, out) ==
    IF c.i = Len(StepsOf(c.strategy))
    THEN Settled(IF IsErr(out) THEN [c EXCEPT !.failedAt = c.i, !.thrown = out] ELSE c,
                 st, perf, out)
    ELSE /\ call' = IF IsErr(out)
                    THEN [c EXCEPT !.i = c.i + 1, !.carry = out, !.wait = "delay",
                                   !.failedAt = c.i, !.thrown = out]
                    ELSE [c EXCEPT !.i = c.i + 1, !.carry = out, !.wait = "delay"]
         /\ stats' = st
         /\ performance' = perf

\* executeSteps after step c.i has produced out: a throw leaves the loop,
\* the last step's output is the result, otherwise the next step is due
\* after the human-like delay
Continue(c, st, perf, out) ==
    IF IsErr(out) THEN Settled([c EXCEPT !.failedAt = c.i, !.thrown = out], st, perf, out)
    ELSE IF c.i = Len(StepsOf(c.strategy)) THEN Settled(c, st, perf, out)
    ELSE /\ call' = [c EXCEPT !.i = c.i + 1, !.carry = out, !.wait = "delay"]
         /\ stats' = st
         /\ performance' = perf

\* executeSteps calling every step without an argument
Invoke_NoInput(c) ==
    [c EXCEPT !.ran = Append(@, StepsOf(c.strategy)[c.i]), !.input = Null]

\* step.action(result): step c.i is invoked with the result so far
Invoke(c) == [c EXCEPT !.ran = Append(@, StepsOf(c.strategy)[c.i]), !.input = c.carry]

\* optimizeFormData(formData): a missing country is filled in
optimizeFormData(formData, country) ==
    IF Falsy(Field(formData, "country"))
    THEN [f \in DOMAIN formData \cup {"country"} |-> IF f = "country" THEN country ELSE formData[f]]
    ELSE formData

\* selectOptimalCountry(): two of the five countries rated above 0.8
OptimalCountries == {<<"U", "S">>, <<"S", "G">>}

\* Utils.generateRandomName('en'), one of the 20 x 20 pairs
RandomName == [firstName |-> <<"M", "a", "r", "y">>, lastName |-> <<"M", "o", "o", "r", "e">>]

\* generateDataVariants(formData, 3)[index], rnd being the random suffix
DataVariant(formData, index, rnd) ==
    [f \in DOMAIN formData \cup {"desired-email"} \cup
           (IF index > 0 THEN {"first-name", "last-name"} ELSE {}) |->
        IF f = "desired-email" THEN ToStr(Field(formData, "desired-email")) \o DecStr(rnd)
        ELSE IF index > 0 /\ f = "first-name" THEN RandomName.firstName
        ELSE IF index > 0 /\ f = "last-name" THEN RandomName.lastName
        ELSE formData[f]]

\* one parallel attempt up to its first timer: quickValidate, then
\* prepareAggressiveRequest and the delay inside submitRegistrationAggressive
StartVariant(data) ==
    IF IsErr(quickValidate(data))
    THEN [st |-> "failed", data |-> data, ran |-> <<"quickValidate">>,
          outcome |-> quickValidate(data)]
    ELSE [st |-> "net", data |-> data,
          ran |-> <<"quickValidate", "prepareAggressiveRequest", "submitRegistrationAggressive">>,
          outcome |-> Null]

Settling(st) == st \in {"idle", "resolved", "rejected"}

\* no parallel attempt: those of an earlier call have settled and are forgotten
NoVariants == [v \in 1..3 |-> NoVariant]

\* a switch that runs the configuration getStrategy fell back to
Dispatch_Fallback(strategy) ==
    IF strategy \in {"smart", "aggressive"} THEN strategy ELSE "standard"

\* switch (strategy) of executeStrategy: the case taken, "default" for a
\* name that is none of the three
Dispatch(strategy) ==
    IF strategy \in {"standard", "smart", "aggressive"} THEN strategy ELSE "default"

\* executeStrategy(formData, strategy), called directly or by
\* OutlookRegistration.executeRegistration, which first stores formData in
\* currentFormData: everything up to the first timer.  A further call
\* submits the same form again, once every parallel attempt of the
\* previous call has answered
ExecuteStrategy(formData, strategy, via) ==
    /\ calls < MaxCalls
    /\ Settling(call.st)
    /\ call.st = "idle" \/ formData = call.form
    /\ \A v \in 1..3 : variants[v].st # "net"
    /\ calls' = calls + 1
    /\ perfKeys' = IF strategy \in DOMAIN performance THEN perfKeys
                   ELSE Append(perfKeys, strategy)
    /\ recommendation' = NoRecommendation
    /\ currentFormData' = IF via = "register" THEN formData ELSE currentFormData
    /\ LET st1 == Bump(stats, "attempts")
           perf0 == initializeStrategyStats(performance, strategy)
           perf1 == [perf0 EXCEPT ![strategy] = Bump(@, "attempts")]
           c0 == [IdleCall EXCEPT !.st = "running", !.via = via, !.strategy = strategy,
                                  !.form = formData, !.data = formData, !.i = 1,
                                  !.retryCount = getStrategy(strategy).retryCount,
                                  !.perfBefore = perf0[strategy]]
           route == Dispatch(strategy)
       IN  CASE route = "standard" ->
                  /\ Continue(Invoke(c0), st1, perf1, validateFormData(formData))
                  /\ variants' = NoVariants
             [] route = "smart" ->
                  /\ \E country \in OptimalCountries :
                        call' = [c0 EXCEPT !.data = optimizeFormData(formData, country),
                                           !.wait = "env"]
                  /\ stats' = st1
                  /\ performance' = perf1
                  /\ variants' = NoVariants
             [] route = "aggressive" ->
                  \E rnd \in VariantDraws :
                     LET vs == [v \in 1..3 |-> StartVariant(DataVariant(formData, v - 1, rnd[v]))]
                     IN  /\ variants' = vs
                         /\ IF \A v \in 1..3 : vs[v].st = "failed"
                            THEN Settled(c0, st1, perf1, Err("AggregateError"))
                            ELSE /\ call' = [c0 EXCEPT !.wait = "race"]
                                 /\ stats' = st1
                                 /\ performance' = perf1
             [] OTHER ->
                  /\ Settled(c0, st1, perf1, Err("UnknownStrategy"))
                  /\ variants' = NoVariants
    /\ UNCHANGED <<smartRetryCount, todayCount, statsReset>>
    /\ UNCHANGED <<fpVars, orVars, moreVars>>

\* serverLoad as analyzeOptimalTiming predicts it from the clock
ServerLoads == {"low", "normal", "high"}

\* detectLocation's 500 ms timer fires: the environment is known, the
\* configuration adapted and executeSteps starts with analyzeOptimalTiming,
\* which returns at once under low load and waits otherwise
EnvironmentDetected ==
    /\ call.st = "running" /\ call.wait = "env"
    /\ \E serverLoad \in ServerLoads :
          IF serverLoad # "low"
          THEN /\ call' = [Invoke(call) EXCEPT !.wait = "timing",
                                               !.carry = Val("analysis", E, E, serverLoad)]
               /\ UNCHANGED <<stats, performance>>
          ELSE Continue(Invoke(call), stats, performance, Val("analysis", E, E, serverLoad))
    /\ UNCHANGED <<smartRetryCount, currentFormData, variants, todayCount, statsReset, calls>>
    /\ UNCHANGED <<perfKeys, recommendation, fpVars, orVars, moreVars>>

\* the Utils.delay(optimalDelay) of analyzeOptimalTiming is over
TimingWaitElapsed ==
    /\ call.st = "running" /\ call.wait = "timing"
    /\ Continue(call, stats, performance, call.carry)
    /\ UNCHANGED <<smartRetryCount, currentFormData, variants, todayCount, statsReset, calls>>
    /\ UNCHANGED <<perfKeys, recommendation, fpVars, orVars, moreVars>>

\* Utils.retry(fn, maxRetries, delay) entered: with no iteration to run it
\* returns undefined, otherwise fn is called for the first time
EnterRetry(c) ==
    IF c.retryCount > 0
    THEN /\ call' = [c EXCEPT !.k = 0, !.wait = "net", !.submits = @ + 1]
         /\ UNCHANGED <<stats, performance>>
    ELSE Continue(c, stats, performance, UndefinedVal)

\* the human-like delay before step c.i is over and the step's action runs
StepDelayElapsed ==
    /\ call.st = "running" /\ call.wait = "delay"
    /\ LET c == Invoke(call)
           name == StepsOf(call.strategy)[call.i]
       IN  CASE name = "validateFormData" ->
                  /\ Continue(c, stats, performance, validateFormData(c.data))
                  /\ UNCHANGED todayCount
             [] name = "preflightCheck" ->
                  /\ \E emailAvailable \in BOOLEAN : \E rnd \in RandomInts :
                        Continue(
                          IF ~emailAvailable /\ Truthy(Field(c.data, "desired-email"))
                          THEN [c EXCEPT !.data["desired-email"] = @ \o DecStr(rnd)] ELSE c,
                          stats, performance, Val("preflight", E, E, ""))
                  /\ UNCHANGED todayCount
             [] name \in {"prepareRequest", "prepareSmartRequest"} ->
                  /\ Continue(c, stats, performance, prepareRequest(c.data))
                  /\ UNCHANGED todayCount
             [] name = "submitRegistration" ->
                  /\ call' = [c EXCEPT !.wait = "net", !.submits = @ + 1]
                  /\ UNCHANGED <<stats, performance, todayCount>>
             [] name = "submitRegistrationWithRetry" ->
                  /\ EnterRetry(c)
                  /\ UNCHANGED todayCount
             [] name = "validateResponse" ->
                  /\ Continue(c, stats, performance, validateResponse(c.input))
                  /\ UNCHANGED todayCount
             [] name = "finalizeRegistration" ->
                  /\ Continue(c, stats, performance, finalizeRegistration(c.input, currentFormData))
                  /\ todayCount' = todayCount + 1
    /\ UNCHANGED <<smartRetryCount, currentFormData, variants, statsReset, calls>>
    /\ UNCHANGED <<perfKeys, recommendation, fpVars, orVars, moreVars>>

\* the simulated API call of submitRegistration answers: success, or one of
\* its errors; under Utils.retry a failure that is not the last one starts
\* the back-off delay * (i + 1)
SubmitCompletes(success, error) ==
    /\ call.st = "running" /\ call.wait = "net"
    /\ IF success THEN Continue(call, stats, performance, SubmitResponse(call.input))
       ELSE IF call.strategy = "smart" /\ call.k # call.retryCount - 1
       THEN /\ call' = [call EXCEPT !.wait = "backoff", !.lastError = Err(error),
                                    !.backoffs = Append(@, 2000 * (call.k + 1))]
            /\ UNCHANGED <<stats, performance>>
       ELSE Continue([call EXCEPT !.lastError = Err(error)], stats, performance, Err(error))
    /\ UNCHANGED <<smartRetryCount, currentFormData, variants, todayCount, statsReset, calls>>
    /\ UNCHANGED <<perfKeys, recommendation, fpVars, orVars, moreVars>>

\* the back-off delay of Utils.retry is over: next iteration, fn is called
BackoffElapsed ==
    /\ call.st = "running" /\ call.wait = "backoff"
    /\ call' = [call EXCEPT !.k = @ + 1, !.wait = "net", !.submits = @ + 1]
    /\ UNCHANGED <<smartRetryCount, stats, performance, currentFormData, variants,
                   todayCount, statsReset, calls>>
    /\ UNCHANGED <<perfKeys, recommendation, fpVars, orVars, moreVars>>

\* the parallel attempts joined so that the first failure rejects the call
VariantCompletes_FailFast(v, success) ==
    /\ variants[v].st = "net"
    /\ LET racing == call.st = "running" /\ call.wait = "race"
           res == finalizeRegistration(
                      validateResponse(SubmitResponse(prepareRequest(variants[v].data))),
                      currentFormData)
           vs == [variants EXCEPT ![v] =
                    IF success
                    THEN [@ EXCEPT !.st = "ok", !.outcome = res,
                                   !.ran = @ \o <<"validateResponse", "finalizeRegistration">>]
                    ELSE [@ EXCEPT !.st = "failed", !.outcome = Err("AggressiveFailed")]]
       IN  /\ variants' = vs
           /\ todayCount' = IF success THEN todayCount + 1 ELSE todayCount
           /\ IF racing /\ success
              THEN Settled([call EXCEPT !.failedFirst =
                                Cardinality({w \in 1..3 : variants[w].st = "failed"})],
                           stats, performance, res)
              ELSE IF racing
              THEN Settled(call, stats, performance, Err("AggressiveFailed"))
              ELSE UNCHANGED <<call, stats, performance>>
    /\ UNCHANGED <<smartRetryCount, currentFormData, statsReset, calls>>
    /\ UNCHANGED <<perfKeys, recommendation, fpVars, orVars, moreVars>>

\* the delay of submitRegistrationAggressive of attempt v is over: on
\* success validateResponse and finalizeRegistration follow at once and the
\* attempt fulfils; Promise.any settles with the first fulfilment, or
\* rejects once all three attempts have failed
VariantCompletes(v, success) ==
    /\ variants[v].st = "net"
    /\ LET racing == call.st = "running" /\ call.wait = "race"
           res == finalizeRegistration(
                      validateResponse(SubmitResponse(prepareRequest(variants[v].data))),
                      currentFormData)
           vs == [variants EXCEPT ![v] =
                    IF success
                    THEN [@ EXCEPT !.st = "ok", !.outcome = res,
                                   !.ran = @ \o <<"validateResponse", "finalizeRegistration">>]
                    ELSE [@ EXCEPT !.st = "failed", !.outcome = Err("AggressiveFailed")]]
       IN  /\ variants' = vs
           /\ todayCount' = IF success THEN todayCount + 1 ELSE todayCount
           /\ IF racing /\ success
              THEN Settled([call EXCEPT !.failedFirst =
                                Cardinality({w \in 1..3 : variants[w].st = "failed"})],
                           stats, performance, res)
              ELSE IF racing /\ \A w \in 1..3 : vs[w].st = "failed"
              THEN Settled(call, stats, performance, Err("AggregateError"))
              ELSE UNCHANGED <<call, stats, performance>>
    /\ UNCHANGED <<smartRetryCount, currentFormData, statsReset, calls>>
    /\ UNCHANGED <<perfKeys, recommendation, fpVars, orVars, moreVars>>

\* resetStats()
ResetStats ==
    /\ stats' = ZeroStats
    /\ performance' = NoPerformance
    /\ statsReset' = TRUE
    /\ perfKeys' = <<>>
    /\ UNCHANGED <<smartRetryCount, currentFormData, call, variants, todayCount, calls>>
    /\ UNCHANGED <<recommendation, fpVars, orVars, moreVars>>

\* the loop of recommendStrategy over Object.entries(performance) from
\* the i-th entry on; best is the entry kept so far, its rate
\* successes / attempts held as the pair (s, a) and compared exactly
RECURSIVE BestFrom(_, _, _, _)
BestFrom(perf, keys, i, best) ==
    IF i > Len(keys) THEN best.strategy
    ELSE LET entry == perf[keys[i]]
         IN  IF entry.attempts > 0 /\ entry.successes * best.a > best.s * entry.attempts
             THEN BestFrom(perf, keys, i + 1,
                           [strategy |-> keys[i], s |-> entry.successes, a |-> entry.attempts])
             ELSE BestFrom(perf, keys, i + 1, best)

\* bestStrategy = 'standard', bestSuccessRate = 0, then the loop
bestStrategy(perf, keys) == BestFrom(perf, keys, 1, [strategy |-> "standard", s |-> 0, a |-> 1])

\* recommendStrategy with the environment tested before the failures
recommendStrategy_EnvironmentFirst(context, perf, keys) ==
    IF context.isVpnDetected \/ context.networkSpeed = "slow" THEN "smart"
    ELSE IF context.timeOfDay >= 9 /\ context.timeOfDay <= 17 THEN "smart"
    ELSE IF context.previousFailures > 3 THEN "aggressive"
    ELSE bestStrategy(perf, keys)

\* recommendStrategy(context)
recommendStrategy(context, perf, keys) ==
    IF context.previousFailures > 3 THEN "aggressive"
    ELSE IF context.isVpnDetected \/ context.networkSpeed = "slow" THEN "smart"
    ELSE IF context.timeOfDay >= 9 /\ context.timeOfDay <= 17 THEN "smart"
    ELSE bestStrategy(perf, keys)

\* the contexts handed to recommendStrategy
Contexts ==
    [networkSpeed : {"unknown", "slow"}, previousFailures : {3, 4},
     timeOfDay : {8, 9, 17, 18}, isVpnDetected : BOOLEAN]

\* recommendStrategy(context), asked once between two executions
Recommend(context) ==
    /\ Settling(call.st)
    /\ ~recommendation.made
    /\ \A v \in 1..3 : variants[v].st # "net"
    /\ recommendation' = [made |-> TRUE, context |-> context,
                          performance |-> performance, keys |-> perfKeys,
                          result |-> recommendStrategy(context, performance, perfKeys)]
    /\ UNCHANGED <<smartRetryCount, stats, performance, currentFormData, call, variants,
                   todayCount, statsReset, calls, perfKeys>>
    /\ UNCHANGED <<fpVars, orVars, moreVars>>

NextRS ==
    \/ \E formData \in Forms : \E strategy \in StrategyNames : \E via \in {"direct", "register"} :
          ExecuteStrategy(formData, strategy, via)
    \/ EnvironmentDetected
    \/ TimingWaitElapsed
    \/ StepDelayElapsed
    \/ \E success \in BOOLEAN : \E error \in SubmitErrors : SubmitCompletes(success, error)
    \/ BackoffElapsed
    \/ \E v \in 1..3 : \E success \in BOOLEAN : VariantCompletes(v, success)
    \/ ResetStats


(***************************************************************************)
(* OutlookRegistration: register() on the built-in registration flow       *)
(* (window.RegistrationStrategies not loaded)                              *)
(***************************************************************************)
\* config.maxRetries
maxRetries == 5

\* config.retryDelay
retryDelay == 2000

\* register() calls explored per behaviour
MaxRegistrations == 2

\* submissions followed within one register() call
MaxAttempts == 7

\* state.failureCount left by earlier register() calls
PriorFailures == {0, 4, 5}

\* the errors simulateRegistrationAPI throws: 邮箱地址已被占用, 需要完成验证码验证,
\* 请求频率过高，请稍后重试, 服务器暂时不可用, 网络连接失败
ApiErrors == {"EmailTaken", "CaptchaRequired", "RateLimited", "ServerUnavailable", "NetworkFailed"}

\* the table of shouldRetry: 网络连接失败, 服务器暂时不可用, 请求超时
retryableErrors == {"NetworkFailed", "ServerUnavailable", "RequestTimeout"}

\* shouldRetry(error)
shouldRetry(error, state) ==
    error \in retryableErrors /\ state.failureCount < maxRetries

IdleReg ==
    [st |-> "idle", wait |-> "none", form |-> NoFormData, attempts |-> 0, delays |-> <<>>,
     errors |-> <<>>, outcome |-> Null, refused |-> FALSE]

IdleOR ==
    /\ orState.registrationInProgress = FALSE
    /\ orState.successCount = 0
    /\ reg = IdleReg
    /\ registrations = 0

OrStates == [registrationInProgress : {FALSE}, failureCount : PriorFailures, successCount : {0}]

\* OutlookRegistration as loaded
ShippedOR == orState \in {o \in OrStates : o.failureCount = 0} /\ IdleOR

\* OutlookRegistration after some earlier registrations have failed
InitOR == orState \in OrStates /\ IdleOR

\* register(formData) up to its first timer: refused while a registration
\* is in progress, otherwise checkEmailAvailability starts its delay
Register(formData) ==
    /\ registrations < MaxRegistrations
    /\ registrations' = registrations + 1
    /\ IF orState.registrationInProgress
       THEN /\ reg' = [reg EXCEPT !.refused = TRUE]
            /\ UNCHANGED orState
       ELSE /\ orState' = [orState EXCEPT !.registrationInProgress = TRUE]
            /\ reg' = [IdleReg EXCEPT !.st = "running", !.wait = "check", !.form = formData]
    /\ UNCHANGED <<fpVars, rsVars, moreVars>>

\* the catch and finally of register(): the failure is counted and rethrown
RegisterFails(r, error) ==
    /\ orState' = [orState EXCEPT !.failureCount = @ + 1, !.registrationInProgress = FALSE]
    /\ reg' = [r EXCEPT !.st = "rejected", !.wait = "none", !.outcome = Err(error)]

\* checkEmailAvailability answers: a taken name ends the registration,
\* otherwise the data is prepared and submitRegistrationRequest starts
EmailChecked(available) ==
    /\ reg.st = "running" /\ reg.wait = "check"
    /\ IF available
       THEN /\ reg' = [reg EXCEPT !.wait = "net", !.attempts = @ + 1]
            /\ UNCHANGED orState
       ELSE RegisterFails(reg, "EmailNameTaken")
    /\ UNCHANGED <<registrations, fpVars, rsVars, moreVars>>

\* simulateRegistrationAPI answers inside submitRegistrationRequest:
\* success runs through processRegistrationResponse and
\* finalizeRegistration; an error is retried after retryDelay when
\* shouldRetry allows it and is rethrown otherwise
RequestCompletes(success, error) ==
    /\ reg.st = "running" /\ reg.wait = "net"
    /\ IF success
       THEN /\ orState' = [orState EXCEPT !.successCount = @ + 1,
                                          !.registrationInProgress = FALSE]
            /\ reg' = [reg EXCEPT !.st = "resolved", !.wait = "none",
                          !.outcome = Val("result",
                                          ToStr(Field(reg.form, "desired-email")) \o AtOutlook,
                                          Field(reg.form, "password"), "")]
       ELSE IF shouldRetry(error, orState)
       THEN /\ reg' = [reg EXCEPT !.wait = "retry", !.errors = Append(@, error),
                                  !.delays = Append(@, retryDelay)]
            /\ UNCHANGED orState
       ELSE RegisterFails([reg EXCEPT !.errors = Append(@, error)], error)
    /\ UNCHANGED <<registrations, fpVars, rsVars, moreVars>>

\* Utils.delay(retryDelay) is over: submitRegistrationRequest calls itself
RetryDelayElapsed ==
    /\ reg.st = "running" /\ reg.wait = "retry"
    /\ reg.attempts < MaxAttempts
    /\ reg' = [reg EXCEPT !.wait = "net", !.attempts = @ + 1]
    /\ UNCHANGED <<orState, registrations, fpVars, rsVars, moreVars>>

NextOR ==
    \/ \E formData \in {ValidForm} : Register(formData)
    \/ \E available \in BOOLEAN : EmailChecked(available)
    \/ \E success \in BOOLEAN : \E error \in ApiErrors : RequestCompletes(success, error)
    \/ RetryDelayElapsed

(***************************************************************************)
(* Object identity: what setSavedData, getSavedData and getStats hand out  *)
(* and keep, and what a caller can reach through it                        *)
(***************************************************************************)
\* objects that may exist at once
MaxObjects == 6

\* executions counted into the statistics
MaxExecutions == 2

Num(n) == [t |-> "num", v |-> n]

Str(s) == [t |-> "str", v |-> s]

Ref(id) == [t |-> "ref", v |-> id]

EmptyObject == [k \in {} |-> Num(0)]

\* { attempts: 0, successes: 0, failures: 0 }
ZeroCounters == [k \in {"attempts", "successes", "failures"} |-> Num(0)]

\* obj[key] = value
Put(obj, key, value) == [k \in DOMAIN obj \cup {key} |-> IF k = key THEN value ELSE obj[k]]

\* a spread that hands on the object itself instead of a copy
Spread_SameObject(h, id) == [heap |-> h, id |-> id]

\* { ...obj }: a new object with the members of obj; a member that refers
\* to an object refers to the same object in the copy
Spread(h, id) == [heap |-> Append(h, h[id]), id |-> Len(h) + 1]

\* the objects reachable from the objects of ids through their members
RECURSIVE Reach(_, _)
Reach(h, ids) ==
    LET next == ids \cup UNION {{h[i][k].v : k \in {k2 \in DOMAIN h[i] : h[i][k2].t = "ref"}} :
                                 i \in ids}
    IN  IF next = ids THEN ids ELSE Reach(h, next)

\* the value of object id with every reference replaced by what it refers to
RECURSIVE Deep(_, _)
Deep(h, id) ==
    [k \in DOMAIN h[id] |-> IF h[id][k].t = "ref" THEN Deep(h, h[id][k].v) ELSE h[id][k]]

\* the maps a caller builds to hand to setSavedData
CallerMaps ==
    {[k \in {"first-name"} |-> Str(<<"a">>)],
     [k \in {"first-name", "country"} |-> Str(<<"b">>)]}

NoCall == [op |-> "none", arg |-> 0, result |-> 0, fresh |-> FALSE]

\* the module objects as loaded: savedFormState {}, stats with its empty
\* strategyPerformance
LoadedOwnership ==
    /\ heap = <<EmptyObject,
                Put(ZeroCounters, "strategyPerformance", Ref(3)),
                EmptyObject>>
    /\ savedRef = 1
    /\ statsRef = 2
    /\ held = {}
    /\ lastCall = NoCall

\* a caller builds a map S
CallerCreates(S) ==
    /\ Len(heap) < MaxObjects
    /\ heap' = Append(heap, S)
    /\ held' = held \cup {Len(heap) + 1}
    /\ lastCall' = [NoCall EXCEPT !.op = "create", !.result = Len(heap) + 1]
    /\ UNCHANGED <<savedRef, statsRef>>
    /\ UNCHANGED <<fpVars, rsVars, orVars, notOwn>>

\* setSavedData(data) with an object the caller holds
SetSavedDataOf(s) ==
    /\ Len(heap) < MaxObjects
    /\ s \in held
    /\ \A k \in DOMAIN heap[s] : heap[s][k].t = "str"
    /\ LET c == Spread(heap, s)
       IN  /\ heap' = c.heap
           /\ savedRef' = c.id
    /\ lastCall' = [NoCall EXCEPT !.op = "setSavedData", !.arg = s]
    /\ UNCHANGED <<statsRef, held>>
    /\ UNCHANGED <<fpVars, rsVars, orVars, notOwn>>

\* getSavedData(); fresh: called right after setSavedData, on its argument
GetSavedData ==
    /\ Len(heap) < MaxObjects
    /\ LET c == Spread(heap, savedRef)
       IN  /\ heap' = c.heap
           /\ held' = held \cup {c.id}
           /\ lastCall' = [op |-> "getSavedData",
                           arg |-> IF lastCall.op = "setSavedData" THEN lastCall.arg ELSE 0,
                           result |-> c.id,
                           fresh |-> lastCall.op = "setSavedData"]
    /\ UNCHANGED <<savedRef, statsRef>>
    /\ UNCHANGED <<fpVars, rsVars, orVars, notOwn>>

\* saveFieldValue(fieldId, value): the snapshot object is written in place
SaveFieldValueOf(f, v) ==
    /\ heap' = [heap EXCEPT ![savedRef] = Put(@, f, Str(v))]
    /\ lastCall' = [NoCall EXCEPT !.op = "saveFieldValue"]
    /\ UNCHANGED <<savedRef, statsRef, held>>
    /\ UNCHANGED <<fpVars, rsVars, orVars, notOwn>>

\* getStats(): { ...this.stats, successRate }
GetStats ==
    /\ Len(heap) < MaxObjects
    /\ LET c == Spread(heap, statsRef)
           st == heap[statsRef]
       IN  /\ heap' = [c.heap EXCEPT ![c.id] =
                          Put(@, "successRate",
                              [t |-> "rate", v |-> <<st["successes"].v, st["attempts"].v>>])]
           /\ held' = held \cup {c.id}
           /\ lastCall' = [NoCall EXCEPT !.op = "getStats", !.result = c.id]
    /\ UNCHANGED <<savedRef, statsRef>>
    /\ UNCHANGED <<fpVars, rsVars, orVars, notOwn>>

\* what one executeStrategy(formData, strategy) does to the statistics:
\* attempts++, initializeStrategyStats, then successes++ or failures++,
\* globally and in the profile's entry
CountExecution(strategy, success) ==
    /\ heap[statsRef]["attempts"].v < MaxExecutions
    /\ LET perf == heap[statsRef]["strategyPerformance"].v
           known == strategy \in DOMAIN heap[perf]
           entry == IF known THEN heap[perf][strategy].v ELSE Len(heap) + 1
           h1 == IF known THEN heap
                 ELSE [Append(heap, ZeroCounters) EXCEPT ![perf] = Put(@, strategy, Ref(entry))]
           field == IF success THEN "successes" ELSE "failures"
           inc(o, k) == Put(o, k, Num(o[k].v + 1))
       IN  /\ known \/ Len(heap) < MaxObjects
           /\ heap' = [h1 EXCEPT ![statsRef] = inc(inc(@, "attempts"), field),
                                 ![entry] = inc(inc(@, "attempts"), field)]
    /\ lastCall' = [NoCall EXCEPT !.op = "executeStrategy"]
    /\ UNCHANGED <<savedRef, statsRef, held>>
    /\ UNCHANGED <<fpVars, rsVars, orVars, notOwn>>

\* resetStats(): this.stats becomes a new object with a new, empty
\* strategyPerformance
ResetStatsOf ==
    /\ Len(heap) + 1 < MaxObjects
    /\ heap' = heap \o <<Put(ZeroCounters, "strategyPerformance", Ref(Len(heap) + 2)),
                          EmptyObject>>
    /\ statsRef' = Len(heap) + 1
    /\ lastCall' = [NoCall EXCEPT !.op = "resetStats"]
    /\ UNCHANGED <<savedRef, held>>
    /\ UNCHANGED <<fpVars, rsVars, orVars, notOwn>>

\* what a caller writes into a counter, and into a text member
CallerWrote == [num |-> Num(7), str |-> Str(<<"z">>)]

\* a caller assigns to a member of an object it has been handed, or of an
\* object that one refers to
CallerWrites(id, k) ==
    /\ id \in Reach(heap, held)
    /\ k \in DOMAIN heap[id] \cup {"first-name"}
    /\ k \in DOMAIN heap[id] => heap[id][k].t \in {"num", "str"}
    /\ heap' = [heap EXCEPT ![id] =
                  Put(@, k, IF k \in DOMAIN heap[id] /\ heap[id][k].t = "num"
                            THEN CallerWrote.num ELSE CallerWrote.str)]
    /\ lastCall' = [NoCall EXCEPT !.op = "write", !.arg = id]
    /\ UNCHANGED <<savedRef, statsRef, held>>
    /\ UNCHANGED <<fpVars, rsVars, orVars, notOwn>>

\* callers of FormProtector's accessors
NextSnapshotOwner ==
    \/ \E S \in CallerMaps : CallerCreates(S)
    \/ \E s \in 1..MaxObjects : SetSavedDataOf(s)
    \/ GetSavedData
    \/ \E f \in {"first-name", "country"} : SaveFieldValueOf(f, <<"c">>)
    \/ \E id \in 1..MaxObjects : CallerWrites(id, "first-name")

\* callers of getStats between executions
NextStatsOwner ==
    \/ GetStats
    \/ \E strategy \in {"standard", "smart"} : \E success \in BOOLEAN :
          CountExecution(strategy, success)
    \/ ResetStatsOf
    \/ \E id \in 1..MaxObjects : CallerWrites(id, "successes")

(***************************************************************************)
(* The persisted registration histories                                    *)
(***************************************************************************)
\* saveRegistrationRecord calls explored per history
MaxSaves == 22

\* records kept under 'registrationRecords' (OutlookRegistration) and under
\* 'outlookRegistrations' (OutlookRegister)
HistoryLimit == [registrationRecords |-> 50, outlookRegistrations |-> 20]

HistoryKeys == DOMAIN HistoryLimit

\* a splice that cuts the list at the limit, dropping what was pushed last
saveRegistrationRecord_KeepOldest(list, record, limit) ==
    LET pushed == Append(list, record)
    IN  IF Len(pushed) > limit THEN SubSeq(pushed, 1, limit) ELSE pushed

\* saveRegistrationRecord(result): push, then splice(0, length - limit)
saveRegistrationRecord(list, record, limit) ==
    LET pushed == Append(list, record)
    IN  IF Len(pushed) > limit
        THEN SubSeq(pushed, Len(pushed) - limit + 1, Len(pushed))
        ELSE pushed

\* a history already holding the records 1..n of earlier sessions
Stored(n) == [i \in 1..n |-> i]

NoSaves == [k \in HistoryKeys |-> 0]

\* saves of earlier sessions that left 'registrationRecords' near its limit
EarlierSaves == [registrationRecords |-> 48, outlookRegistrations |-> 0]

\* the two histories as a browser may hold them at load: empty, or with
\* the records of earlier sessions
LoadedHistory ==
    /\ saves \in {NoSaves, EarlierSaves}
    /\ records = [k \in HistoryKeys |-> Stored(saves[k])]

\* saveRegistrationRecord of the module that keeps its history under key;
\* the record of the n-th call is n
SaveRecord(key) ==
    /\ saves[key] < EarlierSaves[key] + MaxSaves
    /\ saves' = [saves EXCEPT ![key] = @ + 1]
    /\ records' = [records EXCEPT ![key] =
                      saveRegistrationRecord(@, saves[key] + 1, HistoryLimit[key])]
    /\ UNCHANGED <<fpVars, rsVars, orVars, notHist>>

NextHistory == \E key \in HistoryKeys : SaveRecord(key)

(***************************************************************************)
(* OutlookRegister: performRegistration, attemptRegistration and           *)
(* retryRegistration                                                       *)
(***************************************************************************)
\* performRegistration / retryRegistration calls explored per behaviour
MaxPerforms == 3

\* OutlookRegister.config: the entries attemptRegistration reads
registerConfig == [baseDelay |-> 2000, maxRetries |-> 3]

\* requiredFields of OutlookRegister.validateFormData, in its order
registerRequiredFields ==
    <<"desired-email", "password", "first-name", "last-name",
      "birth-month", "birth-day", "birth-year", "country">>

\* String.prototype.includes
Includes(s, sub) ==
    \E i \in 1..(Len(s) - Len(sub) + 1) : SubSeq(s, i, i + Len(sub) - 1) = sub

\* /^[a-zA-Z0-9._-]{3,64}$/ .test(s)
emailPattern(s) ==
    /\ Len(s) >= 3 /\ Len(s) <= 64
    /\ \A i \in 1..Len(s) :
          s[i] \in LowerChars \cup UpperChars \cup {".", "_", "-"} \/ IsDigit(s[i])

\* the loop over requiredFields from the i-th field on: the error of the
\* first field that stops it ("" when none does); a value that is not a
\* string has no trim()
RECURSIVE RequiredFieldError(_, _)
RequiredFieldError(formData, i) ==
    IF i > Len(registerRequiredFields) THEN ""
    ELSE LET v == Field(formData, registerRequiredFields[i])
         IN  IF Falsy(v) THEN "FieldEmpty"
             ELSE IF v = NotAString THEN "TypeError"
             ELSE IF Trim(v) = E THEN "FieldEmpty"
             ELSE RequiredFieldError(formData, i + 1)

\* a validation whose loop leaves out the last required field
registerValidateFormData_SkipCountry(formData) ==
    LET shorter == [f \in DOMAIN formData \cup {"country"} |->
                       IF f = "country" THEN <<"U", "S">> ELSE formData[f]]
        required == RequiredFieldError(shorter, 1)
        age == CurrentYear - ParseInt(Field(formData, "birth-year"))
    IN  IF required # "" THEN required
        ELSE IF ~emailPattern(formData["desired-email"]) THEN "EmailFormat"
        ELSE IF Len(formData["password"]) < 8 THEN "PasswordTooShort"
        ELSE IF ParseInt(formData["birth-year"]) # NaN /\ (age < 13 \/ age > 120)
        THEN "AgeOutOfRange"
        ELSE ""

\* OutlookRegister.validateFormData(formData): the error it throws, "" when
\* it returns; an age of NaN passes both comparisons
registerValidateFormData(formData) ==
    LET required == RequiredFieldError(formData, 1)
        age == CurrentYear - ParseInt(Field(formData, "birth-year"))
    IN  IF required # "" THEN required
        ELSE IF ~emailPattern(formData["desired-email"]) THEN "EmailFormat"
        ELSE IF Len(formData["password"]) < 8 THEN "PasswordTooShort"
        ELSE IF ParseInt(formData["birth-year"]) # NaN /\ (age < 13 \/ age > 120)
        THEN "AgeOutOfRange"
        ELSE ""

\* SecureRegistration.checkDataSecurity(formData).isSecure, for form data
\* validateFormData has accepted
checkDataSecurity(formData) ==
    LET email == formData["desired-email"]
        age == CurrentYear - ParseInt(formData["birth-year"])
    IN  /\ ~(Includes(email, <<"t", "e", "s", "t">>) \/ Includes(email, <<"t", "e", "m", "p">>))
        /\ ~(Len(formData["password"]) > 20)
        /\ ~(ParseInt(formData["birth-year"]) # NaN /\ (age < 18 \/ age > 80))

\* the form as a user types it: the eight fields, no _securityInfo
TypedForm ==
    [f \in Fields |->
        CASE f = "desired-email" -> <<"a", "l", "e", "x", "0", "1">>
          [] f = "password"      -> <<"A", "b", "c", "1", "2", "3", "4", "5", "!">>
          [] f = "first-name"    -> <<"A", "l", "e", "x">>
          [] f = "last-name"     -> <<"S", "m", "i", "t", "h">>
          [] f = "birth-year"    -> <<"1", "9", "9", "0">>
          [] f = "birth-month"   -> <<"0", "2">>
          [] f = "birth-day"     -> <<"1", "5">>
          [] OTHER               -> <<"U", "S">>]

\* formData with the _securityInfo block of generateSecureFormData
WithSecurityInfo(formData) ==
    [f \in DOMAIN formData \cup {"_securityInfo"} |->
        IF f = "_securityInfo" THEN NotAString ELSE formData[f]]

Without(formData, f) == [g \in DOMAIN formData \ {f} |-> formData[g]]

\* form data the checks accept: typed or generated, with an unsuspicious
\* or a suspicious mailbox name, of an adult or of a fifteen-year-old
CompleteForms ==
    LET typed == {TypedForm,
                  [TypedForm EXCEPT !["desired-email"] = <<"t", "e", "s", "t", "0", "1">>],
                  [TypedForm EXCEPT !["birth-year"] = <<"2", "0", "1", "1">>]}
    IN  typed \cup {WithSecurityInfo(form) : form \in typed}

\* form data with a required field missing, empty or blank, the empty
\* object, and one whose month is a number while its country is missing
IncompleteForms ==
    {Without(TypedForm, registerRequiredFields[i]) : i \in 1..Len(registerRequiredFields)}
    \cup {[TypedForm EXCEPT ![registerRequiredFields[i]] = E] :
             i \in 1..Len(registerRequiredFields)}
    \cup {[TypedForm EXCEPT ![registerRequiredFields[i]] = <<" ">>] :
             i \in 1..Len(registerRequiredFields)}
    \cup {WithSecurityInfo([TypedForm EXCEPT !["country"] = E]),
          NoFormData,
          Without([TypedForm EXCEPT !["birth-month"] = NotAString], "country")}

\* complete form data validateFormData turns down for another reason
MalformedForms ==
    {[TypedForm EXCEPT !["desired-email"] = <<"a", "b">>],
     [TypedForm EXCEPT !["password"] = <<"a", "b", "c">>],
     [TypedForm EXCEPT !["birth-year"] = <<"2", "0", "2", "0">>]}

RegisterForms == CompleteForms \cup IncompleteForms \cup MalformedForms

IdleRun ==
    [st |-> "idle", wait |-> "none", form |-> NoFormData, attempts |-> 0,
     delays |-> <<>>, errors |-> <<>>, draws |-> <<>>, outcome |-> Null]

NoBystander == [kind |-> "none", outcome |-> Null]

\* OutlookRegister as loaded, next to SecureRegistration
QuietRegister ==
    /\ registerState = [isRegistering |-> FALSE, currentAttempt |-> 0, lastResult |-> Null]
    /\ run = IdleRun
    /\ bystander = NoBystander
    /\ secureLoaded = TRUE
    /\ performs = 0

\* OutlookRegister as loaded, with or without the SecureRegistration script
LoadedRegister ==
    /\ registerState = [isRegistering |-> FALSE, currentAttempt |-> 0, lastResult |-> Null]
    /\ run = IdleRun
    /\ bystander = NoBystander
    /\ secureLoaded \in BOOLEAN
    /\ performs = 0

\* the catch and finally of performRegistration: the error is rethrown
RegistrationRejected(state, r, error) ==
    [state |-> [state EXCEPT !.isRegistering = FALSE],
     run   |-> [r EXCEPT !.st = "rejected", !.wait = "none", !.outcome = Err(error)]]

\* the catch of attemptRegistration: delay(baseDelay * currentAttempt) while
\* attempts are left, the error rethrown otherwise
AttemptFailed(state, r, error) ==
    LET failed == [r EXCEPT !.errors = Append(@, error)]
    IN  IF state.currentAttempt < registerConfig.maxRetries
        THEN [state |-> state,
              run   |-> [failed EXCEPT !.wait = "delay",
                            !.delays = Append(@, registerConfig.baseDelay * state.currentAttempt)]]
        ELSE RegistrationRejected(state, failed, error)

\* the try block of attemptRegistration up to its await: "" when
\* performSecureRegistration has been called, otherwise the error thrown.
\* this.logWarn is on both branches that precede generateSecureFormData and
\* performTraditionalRegistration, and OutlookRegister has no logWarn
StartAttempt(formData, secure) ==
    IF secure
    THEN IF checkDataSecurity(formData) THEN "" ELSE "TypeError"
    ELSE "TypeError"

\* one turn of the while loop of attemptRegistration, up to its await
attemptRegistration(state, r, secure) ==
    IF state.currentAttempt < registerConfig.maxRetries
    THEN LET counted == [state EXCEPT !.currentAttempt = @ + 1]
             begun == [r EXCEPT !.attempts = @ + 1]
             thrown == StartAttempt(r.form, secure)
         IN  IF thrown = ""
             THEN [state |-> counted, run |-> [begun EXCEPT !.wait = "secure"]]
             ELSE AttemptFailed(counted, begun, thrown)
    ELSE RegistrationRejected(state, r, "AllAttemptsFailed")

\* performRegistration(formData) up to its first await, on the state the
\* caller leaves: refused while a registration is in flight
performRegistration(state, formData, caller) ==
    IF state.isRegistering
    THEN /\ registerState' = state
         /\ bystander' = [kind |-> caller, outcome |-> Err("AlreadyRegistering")]
         /\ UNCHANGED run
    ELSE LET entered == [state EXCEPT !.isRegistering = TRUE, !.currentAttempt = 0]
             started == [IdleRun EXCEPT !.st = "running", !.form = formData]
             thrown == registerValidateFormData(formData)
             after == IF thrown # ""
                      THEN RegistrationRejected(entered, started, thrown)
                      ELSE attemptRegistration(entered, started, secureLoaded)
         IN  /\ registerState' = after.state
             /\ run' = after.run
             /\ bystander' = NoBystander

PerformRegistration(formData) ==
    /\ performs < MaxPerforms
    /\ performs' = performs + 1
    /\ performRegistration(registerState, formData, "performRegistration")
    /\ UNCHANGED <<secureLoaded, fpVars, rsVars, orVars, notReg>>

\* retryRegistration(formData): currentAttempt = 0, then performRegistration
RetryRegistration(formData) ==
    /\ performs < MaxPerforms
    /\ performs' = performs + 1
    /\ performRegistration([registerState EXCEPT !.currentAttempt = 0], formData,
                           "retryRegistration")
    /\ UNCHANGED <<secureLoaded, fpVars, rsVars, orVars, notReg>>

\* performSecureRegistration settles: validateSecureData throws when the
\* form data has no _securityInfo; otherwise Math.random() > 0.1 decides,
\* and the result goes back through attemptRegistration to performRegistration
SecureRegistrationSettles(success) ==
    /\ run.st = "running" /\ run.wait = "secure"
    /\ LET drawn == [run EXCEPT !.draws = Append(@, success)]
           result == Val("result", run.form["desired-email"] \o AtOutlook,
                         run.form["password"], "AccountCreated")
           after ==
               IF Falsy(Field(run.form, "_securityInfo"))
               THEN AttemptFailed(registerState, drawn, "MissingSecurityInfo")
               ELSE IF success
               THEN [state |-> [registerState EXCEPT !.lastResult = result,
                                                     !.isRegistering = FALSE],
                     run   |-> [drawn EXCEPT !.st = "resolved", !.wait = "none",
                                             !.outcome = result]]
               ELSE AttemptFailed(registerState, drawn, "ServiceUnavailable")
       IN  registerState' = after.state /\ run' = after.run
    /\ UNCHANGED <<bystander, secureLoaded, performs, fpVars, rsVars, orVars, notReg>>

\* the delay between two attempts is over: the while loop goes on
RetryDelayOver ==
    /\ run.st = "running" /\ run.wait = "delay"
    /\ LET after == attemptRegistration(registerState, run, secureLoaded)
       IN  registerState' = after.state /\ run' = after.run
    /\ UNCHANGED <<bystander, secureLoaded, performs, fpVars, rsVars, orVars, notReg>>

NextRegister ==
    \/ \E formData \in RegisterForms : PerformRegistration(formData)
    \/ \E formData \in {TypedForm} : RetryRegistration(formData)
    \/ \E success \in BOOLEAN : SecureRegistrationSettles(success)
    \/ RetryDelayOver

(***************************************************************************)
(* The password field and its strength indicator                           *)
(***************************************************************************)
\* characters typed into the password field per behaviour
MaxTyped == 3

\* checkPasswordStrength(password): score and level of the result
checkPasswordStrength(password) ==
    [of |-> password, score |-> PasswordScore(password), level |-> PasswordLevel(password)]

\* one character of each class a check looks for
TypedChars == {"a", "Z", "7", "#"}

\* passwords pasted into the field: none, and passwords one character short
\* of 8 and of 12 made of one class or of two
PastedPasswords ==
    {E,
     <<"a", "b", "c", "d", "e", "f", "g">>,
     <<"1", "2", "3", "4", "5", "6", "7">>,
     <<"A", "b", "c", "d", "e", "f", "g">>,
     <<"a", "b", "c", "d", "e", "f", "g", "h", "i", "j", "k">>}

\* the field as the page shows it at load
EmptyPasswordInput ==
    /\ passwordInput = E
    /\ strength = checkPasswordStrength(E)
    /\ previous = checkPasswordStrength(E)

\* the input listener of the password field: updatePasswordStrength reads
\* the field and calls Utils.checkPasswordStrength
UpdatePasswordStrength(value) ==
    /\ passwordInput' = value
    /\ strength' = checkPasswordStrength(value)
    /\ previous' = strength
    /\ UNCHANGED <<fpVars, rsVars, orVars, notPw>>

\* the user types one more character
TypeCharacter(c) ==
    /\ \E pasted \in PastedPasswords :
          /\ Len(pasted) <= Len(passwordInput)
          /\ Len(passwordInput) < Len(pasted) + MaxTyped
          /\ SubSeq(passwordInput, 1, Len(pasted)) = pasted
    /\ UpdatePasswordStrength(Append(passwordInput, c))

\* the user replaces the content of the field
PastePassword(p) ==
    /\ p # passwordInput
    /\ UpdatePasswordStrength(p)

NextPassword ==
    \/ \E c \in TypedChars : TypeCharacter(c)
    \/ \E p \in PastedPasswords : PastePassword(p)

(***************************************************************************)
(* SecureRegistration.generateSecureFormData                               *)
(***************************************************************************)
\* generateSecureFormData calls explored per behaviour
MaxGenerations == 1

Alphabet ==
    <<"a", "b", "c", "d", "e", "f", "g", "h", "i", "j", "k", "l", "m",
      "n", "o", "p", "q", "r", "s", "t", "u", "v", "w", "x", "y", "z">>

Capitals ==
    <<"A", "B", "C", "D", "E", "F", "G", "H", "I", "J", "K", "L", "M",
      "N", "O", "P", "Q", "R", "S", "T", "U", "V", "W", "X", "Y", "Z">>

\* String.prototype.toLowerCase
toLowerCase(s) ==
    [i \in 1..Len(s) |->
        IF s[i] \in UpperChars
        THEN Alphabet[CHOOSE k \in 1..Len(Capitals) : Capitals[k] = s[i]]
        ELSE s[i]]

\* String.prototype.replace with a string pattern: the first occurrence
Replace(s, pattern, replacement) ==
    IF Includes(s, pattern)
    THEN LET at(i) == SubSeq(s, i, i + Len(pattern) - 1) = pattern
             first == CHOOSE i \in 1..(Len(s) - Len(pattern) + 1) :
                          at(i) /\ \A j \in 1..(i - 1) : ~at(j)
         IN  SubSeq(s, 1, first - 1) \o replacement \o SubSeq(s, first + Len(pattern), Len(s))
    ELSE s

\* realNames: the shortest and the longest first name of each list, the
\* shortest and the longest last name
realNames ==
    [male   |-> [first |-> <<<<"J", "a", "m", "e", "s">>, <<"C", "h", "r", "i", "s", "t", "o", "p", "h", "e", "r">>>>,
                 last  |-> <<<<"S", "m", "i", "t", "h">>, <<"R", "o", "d", "r", "i", "g", "u", "e", "z">>>>],
     female |-> [first |-> <<<<"M", "a", "r", "y">>, <<"E", "l", "i", "z", "a", "b", "e", "t", "h">>>>,
                 last  |-> <<<<"S", "m", "i", "t", "h">>, <<"R", "o", "d", "r", "i", "g", "u", "e", "z">>>>]]

\* config.passwordPatterns
passwordPatterns ==
    <<<<"W", "o", "r", "d", "1", "2", "3", "4", "!">>, <<"P", "a", "s", "s", "2", "0", "2", "4", "@">>, <<"U", "s", "e", "r", "2", "0", "2", "5", "#">>, <<"M", "a", "i", "l", "1", "2", "3", "4", "$">>, <<"T", "e", "s", "t", "2", "0", "2", "4", "%">>>>

\* generateConsistentLocation: countries
countries == <<<<"U", "S">>, <<"C", "A">>, <<"G", "B">>>>

\* avoidDates of generateRealisticBirth
avoidDates ==
    {<<"0", "1", "-", "0", "1">>, <<"1", "2", "-", "2", "5">>,
     <<"0", "7", "-", "0", "4">>, <<"1", "0", "-", "3", "1">>}

\* generateSecureEmail(nameData): the pattern picked out of the five, with
\* its own random number r = Math.floor(Math.random() * range)
generateSecureEmail(firstName, lastName, pattern, r) ==
    LET first == toLowerCase(firstName)
        last == toLowerCase(lastName)
    IN  CASE pattern = 1 -> first \o <<".">> \o last \o DecStr(r + 1)
          [] pattern = 2 -> first \o last \o DecStr(r + 100)
          [] pattern = 3 -> <<first[1]>> \o last \o DecStr(r + 10)
          [] pattern = 4 -> first \o <<last[1]>> \o DecStr(r + 100)
          [] OTHER       -> first \o <<"_">> \o last \o DecStr(r + 1)

\* the ranges of the random number of each email pattern
EmailRange == <<99, 999, 99, 999, 99>>

\* generateSecurePassword(): a base pattern and one of its five variations
generateSecurePassword(base, variation) ==
    LET basePattern == passwordPatterns[base]
    IN  CASE variation = 1 -> basePattern
          [] variation = 2 -> Replace(basePattern, <<"2", "0", "2", "4">>, <<"2", "0", "2", "5">>)
          [] variation = 3 -> Replace(basePattern, <<"1", "2", "3", "4">>, <<"5", "6", "7", "8">>)
          [] variation = 4 -> Replace(basePattern, <<"!">>, <<"@">>)
          [] OTHER         -> Replace(basePattern, <<"@">>, <<"#">>)

\* a birthday whose day is drawn out of 31
generateRealisticBirth_AnyDay(ageDraw, monthDraw, dayDraw) ==
    [year  |-> DecStr(CurrentYear - (ageDraw + 25)),
     month |-> PadStart2(monthDraw + 1),
     day   |-> PadStart2(dayDraw + 4)]

\* generateRealisticBirth(), for the three draws Math.floor(Math.random() * 30),
\* Math.floor(Math.random() * 12) and Math.floor(Math.random() * 28)
generateRealisticBirth(ageDraw, monthDraw, dayDraw) ==
    LET age == ageDraw + 25
        month == monthDraw + 1
        drawn == dayDraw + 1
        monthDay == PadStart2(month) \o <<"-">> \o PadStart2(drawn)
        day == IF monthDay \in avoidDates
               THEN (IF drawn + 1 > 28 THEN 15 ELSE drawn + 1)
               ELSE drawn
    IN  [year  |-> DecStr(CurrentYear - age),
         month |-> PadStart2(month),
         day   |-> PadStart2(day)]

\* generateSecureFormData() for one outcome of its random choices
generateSecureFormData(draw) ==
    LET nameSet == realNames[draw.gender]
        firstName == nameSet.first[draw.first]
        lastName == nameSet.last[draw.last]
        birthData == generateRealisticBirth(draw.age, draw.month, draw.day)
    IN  [f \in Fields \cup {"_securityInfo"} |->
            CASE f = "first-name"    -> firstName
              [] f = "last-name"     -> lastName
              [] f = "desired-email" -> generateSecureEmail(firstName, lastName, draw.pattern, draw.number)
              [] f = "password"      -> generateSecurePassword(draw.base, draw.variation)
              [] f = "birth-year"    -> birthData.year
              [] f = "birth-month"   -> birthData.month
              [] f = "birth-day"     -> birthData.day
              [] f = "country"       -> countries[draw.country]
              [] OTHER               -> NotAString]

\* one outcome of the random choices
BaseDraw ==
    [gender |-> "male", first |-> 1, last |-> 1, pattern |-> 1, number |-> 0,
     base |-> 1, variation |-> 1, age |-> 0, month |-> 0, day |-> 0, country |-> 1]

\* the outcomes explored: every birthday of the youngest and of the oldest
\* age, every email pattern with its smallest and largest number for the
\* shortest and longest names, every password, every country
Draws ==
    {[BaseDraw EXCEPT !.age = a, !.month = m, !.day = d] :
        a \in {0, 29}, m \in 0..11, d \in 0..27}
    \cup UNION {{[BaseDraw EXCEPT !.gender = g, !.first = i, !.last = j, !.pattern = p,
                                  !.number = n] :
                    n \in {0, EmailRange[p] - 1}} :
                 g \in {"male", "female"}, i \in 1..2, j \in 1..2, p \in 1..5}
    \cup {[BaseDraw EXCEPT !.base = b, !.variation = v] : b \in 1..5, v \in 1..5}
    \cup {[BaseDraw EXCEPT !.country = c] : c \in 1..3}

NothingGenerated == generated = NoFormData /\ generations = 0

\* FormFiller.generateFormData() with SecureRegistration loaded
GenerateFormData(draw) ==
    /\ generations < MaxGenerations
    /\ generations' = generations + 1
    /\ generated' = generateSecureFormData(draw)
    /\ UNCHANGED <<fpVars, rsVars, orVars, notGen>>

NextGenerate == \E draw \in Draws : GenerateFormData(draw)

LoadedMore ==
    LoadedOwnership /\ LoadedHistory /\ QuietRegister /\ EmptyPasswordInput /\ NothingGenerated

QuietMore ==
    /\ LoadedOwnership
    /\ saves = NoSaves /\ records = [k \in HistoryKeys |-> <<>>]
    /\ QuietRegister
    /\ EmptyPasswordInput
    /\ NothingGenerated

(***************************************************************************)
(* Specifications: one object at work, the others as loaded                *)
(***************************************************************************)
InitFormProtector == InitFP /\ ShippedRS /\ ShippedOR /\ QuietMore

SpecFP == InitFormProtector /\ [][NextFP]_vars

SpecFPFair ==
    /\ InitFormProtector
    /\ [][NextTimers]_vars
    /\ WF_vars(AssessTick)
    /\ WF_vars(AutoSaveTick)
    /\ WF_vars(DayRestoreTimeout)

SpecFPObjects == InitFormProtector /\ [][NextFPObjects]_vars

\* the page idle: an empty form, nothing captured
QuietFP ==
    /\ present = Fields
    /\ live = EmptyForm
    /\ dayOptions = 0
    /\ savedFormState = EmptyState
    /\ pendingDays = 0
    /\ lastOp = NoOp
    /\ guarded = EmptyState
    /\ envOps = 0

InitStrategies == QuietFP /\ ShippedRS /\ ShippedOR /\ QuietMore

SpecRS == InitStrategies /\ [][NextRS]_vars

\* submitRegistrationWithRetry under other values of config.retryCount
NextRetry ==
    \/ ExecuteStrategy(ValidForm, "smart", "direct")
    \/ EnvironmentDetected
    \/ TimingWaitElapsed
    \/ StepDelayElapsed
    \/ \E success \in BOOLEAN : \E error \in SubmitErrors : SubmitCompletes(success, error)
    \/ BackoffElapsed

InitRetry == QuietFP /\ InitRS /\ ShippedOR /\ QuietMore

SpecRetry == InitRetry /\ [][NextRetry]_vars

\* recommendStrategy over the histories executions of one form leave
NextRecommend ==
    \/ \E strategy \in StrategyNames : ExecuteStrategy(ValidForm, strategy, "direct")
    \/ EnvironmentDetected
    \/ TimingWaitElapsed
    \/ StepDelayElapsed
    \/ \E success \in BOOLEAN : \E error \in SubmitErrors : SubmitCompletes(success, error)
    \/ BackoffElapsed
    \/ \E v \in 1..3 : \E success \in BOOLEAN : VariantCompletes(v, success)
    \/ ResetStats
    \/ \E context \in Contexts : Recommend(context)

SpecRecommend == InitStrategies /\ [][NextRecommend]_vars

InitRegistration == QuietFP /\ ShippedRS /\ InitOR /\ QuietMore

SpecOR == InitRegistration /\ [][NextOR]_vars

InitOwnership == QuietFP /\ ShippedRS /\ ShippedOR /\ QuietMore

InitHistory == QuietFP /\ ShippedRS /\ ShippedOR /\ LoadedMore

SpecHistory == InitHistory /\ [][NextHistory]_vars

SpecSnapshotOwner == InitOwnership /\ [][NextSnapshotOwner]_vars

SpecStatsOwner == InitOwnership /\ [][NextStatsOwner]_vars

InitRegister ==
    /\ QuietFP /\ ShippedRS /\ ShippedOR
    /\ LoadedOwnership
    /\ saves = NoSaves /\ records = [k \in HistoryKeys |-> <<>>]
    /\ LoadedRegister
    /\ EmptyPasswordInput
    /\ NothingGenerated

\* OutlookRegister with its callers
SpecRegister == InitRegister /\ [][NextRegister]_vars

\* the password field with its strength indicator
SpecPassword == InitOwnership /\ [][NextPassword]_vars

\* the data generator
SpecGenerate == InitOwnership /\ [][NextGenerate]_vars


(***************************************************************************)
(* RegistrationStrategies: properties                                      *)
(***************************************************************************)
Balanced(counters) == counters.attempts = counters.successes + counters.failures

\* C2: when step k of a pipeline throws, the steps after k are never run
\* and the pipeline rejects with exactly the error step k threw, never with
\* the output of an earlier step; the same for each parallel attempt
C2_AbortOnThrow ==
    /\ call.failedAt > 0 =>
          /\ call.ran = SubSeq(StepsOf(call.strategy), 1, call.failedAt)
          /\ call.st = "rejected"
          /\ IsErr(call.thrown)
          /\ call.pipeline = call.thrown
    /\ \A v \in 1..3 : variants[v].st = "failed" =>
          /\ IsErr(variants[v].outcome)
          /\ variants[v].ran = SubSeq(AggressiveSteps, 1, Len(variants[v].ran))
          /\ Len(variants[v].ran) \in {1, 3}
          /\ Len(variants[v].ran) = 1 <=> IsErr(quickValidate(variants[v].data))

\* the submission, step 3 of the 5 standard steps, has thrown
C2_Witness ==
    /\ call.strategy = "standard"
    /\ call.failedAt = 3
    /\ call.ran = <<"validateFormData", "prepareRequest", "submitRegistration">>
    /\ call.pipeline = Err("Timeout")

\* C3: as long as resetStats has not been called, every executeStrategy
\* call has raised its profile's attempts by one by the time its steps run,
\* raises exactly one of successes (pipeline resolved) or failures
\* (pipeline rejected) when it settles, and with no call in flight
\* attempts = successes + failures for every profile and globally
C3_AttemptsBalance ==
    ~statsReset =>
        /\ stats.attempts = calls
        /\ \A n \in DOMAIN performance : n # call.strategy => Balanced(performance[n])
        /\ call.st = "running" =>
              /\ stats.attempts = stats.successes + stats.failures + 1
              /\ performance[call.strategy] = Bump(call.perfBefore, "attempts")
        /\ Settling(call.st) =>
              /\ Balanced(stats)
              /\ \A n \in DOMAIN performance : Balanced(performance[n])
        /\ call.st = "resolved" =>
              /\ ~IsErr(call.pipeline)
              /\ performance[call.strategy] = Bump(Bump(call.perfBefore, "attempts"), "successes")
        /\ call.st = "rejected" =>
              /\ IsErr(call.pipeline)
              /\ performance[call.strategy] = Bump(Bump(call.perfBefore, "attempts"), "failures")

\* two calls under one profile have settled, one rejected and one resolved
C3_Witness ==
    /\ ~statsReset
    /\ calls = 2
    /\ call.st = "resolved"
    /\ performance[call.strategy] = [attempts |-> 2, successes |-> 1, failures |-> 1]

C4_Step ==
    /\ (calls' = calls + 1 /\ call'.strategy = "aggressive"
            /\ Truthy(Field(call'.form, "password"))) =>
          /\ call'.st = "running"
          /\ \A v \in 1..3 : variants'[v].st = "net"
    /\ (call'.strategy = "aggressive" /\ call'.st = "running") =>
          \A v \in 1..3 : variants'[v].st # "ok"
    /\ \A v \in 1..3 :
          (call.strategy = "aggressive" /\ call.st = "running"
                /\ variants[v].st = "net" /\ variants'[v].st = "ok") =>
             /\ call'.pipeline = variants'[v].outcome
             /\ ~statsReset =>
                   /\ call'.st = "resolved"
                   /\ call'.outcome = variants'[v].outcome
                   /\ performance'["aggressive"].successes = call.perfBefore.successes + 1
    /\ (call'.strategy = "aggressive" /\ IsErr(call'.pipeline)) =>
          \A v \in 1..3 : variants'[v].st = "failed"
    /\ (call.strategy = "aggressive" /\ Settling(call.st) /\ calls' = calls
            /\ variants' # variants) =>
          /\ call' = call
          /\ stats' = stats
          /\ performance' = performance

\* C4: the three attempts of the aggressive profile are pending together;
\* the call resolves with the result of the first attempt to succeed,
\* whatever has failed before, rejects only when all three have failed,
\* and raises the profile's successes by exactly one, the attempts that
\* answer later changing nothing
C4_FirstSuccessWins == [][C4_Step]_vars

\* attempts 0 and 2 have failed, then attempt 1 succeeded
C4_Witness ==
    /\ call.strategy = "aggressive" /\ call.st = "resolved"
    /\ call.failedFirst = 2
    /\ variants[1].st = "failed" /\ variants[3].st = "failed" /\ variants[2].st = "ok"
    /\ call.outcome = variants[2].outcome
    /\ call.outcome.email = <<"a", "l", "e", "x", "0", "1", "4", "2">> \o AtOutlook
    /\ performance["aggressive"] = [attempts |-> 1, successes |-> 1, failures |-> 0]

\* the form data the validation rules refuse
Refused(formData) ==
    \/ \E i \in 1..Len(RequiredFields) : Field(formData, RequiredFields[i]) \in {E, Undefined}
    \/ Len(formData["desired-email"]) < 3
    \/ PasswordLevel(formData["password"]) = "weak"

Submitted(variant) == Len(variant.ran) > 2

\* C5: under each of the three profiles a call whose form data has an
\* empty required field, an e-mail name shorter than 3 or a weak password
\* is rejected and nothing is submitted
C5_AllProfilesReject ==
    (call.strategy \in {"standard", "smart", "aggressive"} /\ Refused(call.form)) =>
        /\ call.submits = 0
        /\ \A v \in 1..3 : ~Submitted(variants[v])
        /\ call.st # "resolved"

\* C6: a standard call with valid form data whose submission succeeds
\* resolves with the e-mail name followed by @outlook.com and the password
\* of the form data passed in, and standard.successes goes up by one
C6_StandardResult ==
    (/\ call.strategy = "standard" /\ ~Refused(call.form)
     /\ Settling(call.st) /\ call.submits = 1 /\ call.lastError = Null
     /\ ~statsReset) =>
        /\ call.st = "resolved"
        /\ call.outcome.kind = "result"
        /\ call.outcome.email = call.form["desired-email"] \o AtOutlook
        /\ call.outcome.password = call.form["password"]
        /\ performance["standard"].successes = call.perfBefore.successes + 1

\* C9: submitRegistrationWithRetry submits at most retryCount times, waits
\* 2000 ms x k after the k-th failure, stops at the first success, rejects
\* with the last error after retryCount failures, and for every retryCount
\* ends with a response or with an error
C9_RetryContract ==
    call.strategy = "smart" =>
        /\ call.submits <= call.retryCount
        /\ call.backoffs = [j \in 1..Len(call.backoffs) |-> 2000 * j]
        /\ call.i >= 6 =>
              /\ call.carry.kind = "response"
              /\ call.submits = Len(call.backoffs) + 1
        /\ call.failedAt = 5 =>
              /\ call.submits = call.retryCount
              /\ call.thrown = call.lastError

\* C10: submitRegistrationRequest retries only errors of the retryable
\* table, and within one register() call submits at most maxRetries times
C10_BoundedRetries ==
    /\ reg.attempts <= maxRetries
    /\ \A j \in 1..Len(reg.delays) : reg.errors[j] \in retryableErrors


\* C11: with more than 3 previous failures recommendStrategy answers
\* aggressive, whatever the network speed, the hour, the VPN flag and the
\* recorded history
C11_AggressiveAfterFailures ==
    (recommendation.made /\ recommendation.context.previousFailures > 3) =>
        recommendation.result = "aggressive"

\* asked at 10 o'clock behind a VPN on a slow network, after 4 failures and
\* with a history in which smart has succeeded
C11_Witness ==
    /\ recommendation.made
    /\ recommendation.context =
          [networkSpeed |-> "slow", previousFailures |-> 4, timeOfDay |-> 9,
           isVpnDetected |-> TRUE]
    /\ "smart" \in DOMAIN recommendation.performance
    /\ recommendation.performance["smart"].successes = 1
    /\ recommendation.result = "aggressive"

\* the profiles in the order the strategies table declares them
DeclaredOrder == <<"standard", "smart", "aggressive">>

\* successes / attempts of profile n in history perf is at least that of m
AtLeastAsGood(perf, n, m) ==
    perf[n].successes * perf[m].attempts >= perf[m].successes * perf[n].attempts

\* the profiles with a history and a success rate above zero
Proven(perf) ==
    {i \in 1..Len(DeclaredOrder) :
        /\ DeclaredOrder[i] \in DOMAIN perf
        /\ perf[DeclaredOrder[i]].attempts > 0
        /\ perf[DeclaredOrder[i]].successes > 0}

\* the best recorded rate, a tie going to the profile declared first
BestDeclared(perf) ==
    IF Proven(perf) = {} THEN "standard"
    ELSE DeclaredOrder[CHOOSE i \in Proven(perf) :
            \A j \in Proven(perf) :
                /\ AtLeastAsGood(perf, DeclaredOrder[i], DeclaredOrder[j])
                /\ AtLeastAsGood(perf, DeclaredOrder[j], DeclaredOrder[i]) => i <= j]

\* C12: with at most 3 previous failures recommendStrategy answers smart
\* behind a VPN, on a slow network or between 9 and 17 o'clock, and
\* otherwise the profile with the best recorded success rate, a tie going
\* to the profile declared first and standard standing in for no history
C12_EnvironmentThenHistory ==
    (recommendation.made /\ recommendation.context.previousFailures <= 3) =>
        recommendation.result =
            IF \/ recommendation.context.isVpnDetected
               \/ recommendation.context.networkSpeed = "slow"
               \/ recommendation.context.timeOfDay \in 9..17
            THEN "smart"
            ELSE BestDeclared(recommendation.performance)


C13_Step ==
    /\ ((calls' = calls + 1 \/ call.ran = <<>>) /\ call'.ran # <<>>) =>
          /\ call'.ran = <<StepsOf(call'.strategy)[1]>>
          /\ call'.input = Null
    /\ (calls' = calls /\ call.ran # <<>> /\ Len(call'.ran) > Len(call.ran)) =>
          /\ call.wait = "delay"
          /\ ~IsErr(call.carry)
          /\ call'.ran = Append(call.ran, StepsOf(call.strategy)[Len(call.ran) + 1])
          /\ call'.input = call.carry
    /\ (call'.strategy \in {"standard", "smart"} /\ call'.st = "resolved") =>
          /\ call'.ran = StepsOf(call'.strategy)
          /\ call'.pipeline =
                finalizeRegistration(
                    validateResponse(SubmitResponse(prepareRequest(call'.data))),
                    currentFormData')

\* C13: executeSteps invokes the steps one at a time in declared order, the
\* first with null, each later one only once its predecessor has settled
\* and with its predecessor's output, so that the result is the last
\* step's output for the chain of outputs before it
C13_SequentialSteps == [][C13_Step]_vars

\* the seven smart steps have run, the last one on the validated response
C13_Witness ==
    /\ call.strategy = "smart" /\ call.st = "resolved"
    /\ call.ran = SmartSteps
    /\ call.input = SubmitResponse(prepareRequest(call.data))
    /\ call.outcome.email = <<"a", "l", "e", "x", "0", "1">> \o AtOutlook


\* validateFormData has thrown in the sequential pipeline of the call
ValidationThrown ==
    /\ call.strategy \in {"standard", "smart"}
    /\ call.failedAt > 0
    /\ call.ran[call.failedAt] = "validateFormData"

\* quickValidate has thrown in every parallel attempt of the call
QuickValidationThrown ==
    /\ call.strategy = "aggressive"
    /\ \A v \in 1..3 : variants[v].st = "failed" /\ variants[v].ran = <<"quickValidate">>

\* C14: once validation has refused the form data of an executeStrategy
\* call, under any profile, nothing is submitted in that call and the call
\* rejects with the validation error itself
C14_ValidationErrorSurfaces ==
    /\ ValidationThrown =>
          /\ call.st = "rejected"
          /\ call.submits = 0
          /\ statsReset \/ call.outcome = validateFormData(call.data)
    /\ QuickValidationThrown =>
          /\ call.st = "rejected"
          /\ \A v \in 1..3 : ~Submitted(variants[v])
          /\ statsReset \/ call.outcome = Err("MissingKeyField")


\* C15: a call naming no known profile rejects with the unknown-strategy
\* error within executeStrategy itself: no step has run, nothing was
\* submitted and no parallel attempt exists
C15_UnknownStrategyRejects ==
    (calls > 0 /\ call.strategy \notin {"standard", "smart", "aggressive"}) =>
        /\ call.st = "rejected"
        /\ call.outcome = Err("UnknownStrategy")
        /\ call.ran = <<>>
        /\ call.submits = 0
        /\ variants = NoVariants

\* executeStrategy(form, 'turbo') has been called and has rejected
C15_Witness ==
    /\ call.strategy = "turbo" /\ call.st = "rejected"
    /\ call.form = ValidForm
    /\ stats.failures > 0


\* a parallel attempt completes after its aggressive call has resolved
LateCompletion ==
    /\ call.strategy = "aggressive" /\ call.st = "resolved"
    /\ calls' = calls
    /\ variants' # variants

C16_Step ==
    LateCompletion =>
        /\ call' = call
        /\ stats' = stats
        /\ performance' = performance
        /\ todayCount' = todayCount

\* C16: once an aggressive call has resolved with its first successful
\* attempt, an attempt completing later changes neither the result nor the
\* statistics nor the today-registration counter
C16_LateVariantsDiscarded == [][C16_Step]_vars


\* C17: an automatic restore leaves every live field that was non-empty
\* just before it with the value it had, whoever wrote that value
C17_RestoreKeepsNewerData ==
    lastOp.op = "autorestore" =>
        \A f \in present : lastOp.before[f] # E => live[f] = lastOp.before[f]


\* an automatic restore has run to its end, the deferred day refresh included
AutoRestoreCompleted ==
    \/ lastOp.op = "autorestore-done"
    \/ lastOp.op = "autorestore" /\ pendingDays = 0

C18_Step ==
    (AutoRestoreCompleted /\ lastOp'.op \in {"assess", "autorestore"}) => ~lastOp'.degraded

\* C18: the assessment tick that directly follows a completed automatic
\* restore reports the form as not cleared and restores nothing
C18_RestoreReturnsToTracking == [][C18_Step]_vars


\* restoreAllValues has just run, from forceRestore, the import handler or
\* the assessment tick
RestoreRan == lastOp.op \in {"force", "import", "autorestore"}

\* C19: the assessment, the restore and forceRestore return without
\* throwing, whatever fields are missing and whatever object was installed
\* as the snapshot, and a restore has written every string value of the
\* snapshot that is non-blank into its present field (birth-day follows
\* with the deferred refresh)
C19_NeverThrows ==
    /\ ~lastOp.threw
    /\ RestoreRan =>
          \A f \in present \ {"birth-day"} :
              IsValidValue(Saved(lastOp.S, f)) => live[f] = lastOp.S[f]


\* a restore and its deferred day refresh have both run, nothing in between
DayRestoreDone == lastOp.op \in {"import-done", "force-done", "autorestore-done"}

\* days of the restored month in the year the page shows
RestoredMonthDays ==
    LET py == ParseInt(live["birth-year"])
    IN  DaysInMonth(IF py = NaN \/ py = 0 THEN CurrentYear ELSE py,
                    ParseInt(lastOp.S["birth-month"]))

\* C20: after a restore from a snapshot with a birth-month and a saved day,
\* the day options are those of the restored month and year, and birth-day
\* is the saved day when that day is at most the number of days of the
\* month, and empty otherwise
C20_DayWithinMonth ==
    (/\ DayRestoreDone
     /\ {"birth-year", "birth-month", "birth-day"} \subseteq present
     /\ NonBlank(Saved(lastOp.S, "birth-month"))
     /\ NonBlank(Saved(lastOp.S, "birth-day"))) =>
        /\ live["birth-month"] = lastOp.S["birth-month"]
        /\ dayOptions = RestoredMonthDays
        /\ live["birth-day"] =
              IF ParseInt(lastOp.S["birth-day"]) <= RestoredMonthDays
              THEN lastOp.S["birth-day"] ELSE E


\* C21: the map getSavedData() returns right after setSavedData(S) equals
\* S, and a write by a caller to S, to a returned map or to any object it
\* can reach leaves the stored snapshot as it was
C21_Step ==
    /\ (lastCall'.op = "getSavedData" /\ lastCall'.fresh) =>
          heap'[lastCall'.result] = heap'[lastCall'.arg]
    /\ lastCall'.op = "write" => Deep(heap', savedRef') = Deep(heap, savedRef)

C22_Step ==
    lastCall'.op = "write" => Deep(heap', statsRef') = Deep(heap, statsRef)

C22_StatsNotShared == [][C22_Step]_vars


Min(a, b) == IF a < b THEN a ELSE b

\* C23: after k saveRegistrationRecord calls a history holds the most
\* recent min(k, N) records in the order they were saved, N being 50 for
\* OutlookRegistration and 20 for OutlookRegister
C23_BoundedHistory ==
    \A key \in HistoryKeys :
        LET k == saves[key]
            n == Min(k, HistoryLimit[key])
        IN  /\ Len(records[key]) = n
            /\ \A i \in 1..n : records[key][i] = k - n + i

\* both histories have evicted: 52 saves into the one, 22 into the other
C23_Witness ==
    /\ saves["registrationRecords"] = 52 /\ Head(records["registrationRecords"]) = 3
    /\ saves["outlookRegistrations"] = 22 /\ Head(records["outlookRegistrations"]) = 3


\* C24: a registration run that resolves hands out one result and has
\* appended exactly one record to the history its module persists
C24_Step ==
    (run.st = "running" /\ run'.st = "resolved") =>
        /\ run'.outcome.kind = "result"
        /\ registerState'.lastResult = run'.outcome
        /\ Len(records'.outlookRegistrations) = Len(records.outlookRegistrations) + 1

C24_OneRecordPerSuccess == [][C24_Step]_vars


\* a required field is not there, is empty or holds white space only
IsMissingOrBlank(v) == v = Undefined \/ v = E \/ (v # NotAString /\ Trim(v) = E)

LacksRequiredField(formData) ==
    \E i \in 1..Len(registerRequiredFields) :
        IsMissingOrBlank(Field(formData, registerRequiredFields[i]))

\* C26: performRegistration with form data lacking one of the 8 required
\* fields (the empty object included) rejects with the error of
\* validateFormData, has made no attempt and leaves isRegistering false
C26_IncompleteRejected ==
    (run.st # "idle" /\ LacksRequiredField(run.form)) =>
        /\ run.st = "rejected"
        /\ IsErr(run.outcome)
        /\ run.attempts = 0
        /\ registerState.currentAttempt = 0
        /\ ~registerState.isRegistering

C26_Witness ==
    /\ run.st = "rejected" /\ run.form = NoFormData
    /\ performs > 1


\* C28: for form data validateFormData accepts, an attempt whose simulated
\* submission is drawn successful resolves performRegistration with a
\* success result
C28_SuccessResolves ==
    (/\ registerValidateFormData(run.form) = ""
     /\ run.draws # <<>>
     /\ run.draws[Len(run.draws)]) =>
        run.st = "resolved" /\ run.outcome.kind = "result"


\* C29: one performRegistration run starts at most maxRetries attempts,
\* waits baseDelay x attempt number after the attempt that failed, rejects
\* with the error of its last attempt, and a call made while it is in
\* flight is refused
C29_BoundedAttempts ==
    /\ run.attempts <= registerConfig.maxRetries
    /\ \A i \in 1..Len(run.delays) : run.delays[i] = registerConfig.baseDelay * i
    /\ (run.st = "rejected" /\ run.attempts > 0) =>
           /\ run.attempts = registerConfig.maxRetries
           /\ run.outcome = Err(run.errors[Len(run.errors)])
    /\ bystander.kind # "none" => IsErr(bystander.outcome)


\* the five properties of a password the claim names
PasswordProperties(password) ==
    {n \in {"length", "lowercase", "uppercase", "digit", "symbol"} :
        CASE n = "length"    -> Len(password) >= 8
          [] n = "lowercase" -> \E i \in 1..Len(password) : password[i] \in LowerChars
          [] n = "uppercase" -> \E i \in 1..Len(password) : password[i] \in UpperChars
          [] n = "digit"     -> \E i \in 1..Len(password) : IsDigit(password[i])
          [] OTHER           -> \E i \in 1..Len(password) :
                                    /\ password[i] \notin LowerChars \cup UpperChars
                                    /\ ~IsDigit(password[i])}

\* exactly one property has become true and none has become false
OneMoreProperty(before, after) ==
    /\ PasswordProperties(before) \subseteq PasswordProperties(after)
    /\ Cardinality(PasswordProperties(after) \ PasswordProperties(before)) = 1

\* C25: when a password gains one of the properties length >= 8, lowercase,
\* uppercase, digit, symbol and loses none, the score of
\* checkPasswordStrength does not decrease; the level is 'weak' exactly when
\* the score is at most 2
C25_ScoreMonotone ==
    /\ OneMoreProperty(previous.of, strength.of) => strength.score >= previous.score
    /\ strength.level = "weak" <=> strength.score <= 2

C25_Witness ==
    /\ OneMoreProperty(previous.of, strength.of)
    /\ PasswordProperties(strength.of) \ PasswordProperties(previous.of) = {"length"}
    /\ strength.score = 3 /\ strength.level = "fair"


\* C27: a form data set generateSecureFormData returns has its eight form
\* fields non-empty, a birth day that exists in its birth month, and is
\* accepted by OutlookRegister.validateFormData
C27_GeneratedIsValid ==
    generations > 0 =>
        /\ \A f \in Fields :
              f \in DOMAIN generated /\ generated[f] # NotAString /\ Trim(generated[f]) # E
        /\ ParseInt(generated["birth-month"]) \in 1..12
        /\ ParseInt(generated["birth-day"]) \in
              1..DaysInMonth(ParseInt(generated["birth-year"]), ParseInt(generated["birth-month"]))
        /\ registerValidateFormData(generated) = ""

C27_Witness ==
    /\ generations > 0
    /\ generated["birth-month"] = <<"0", "2">>
    /\ generated["birth-day"] = <<"2", "8">>
    /\ registerValidateFormData(generated) = ""


\* C30: with or without a resetStats while the pipeline runs, an
\* executeStrategy call settles as its pipeline did, resolving with the
\* pipeline's result or rejecting with the pipeline's error, and the
\* global counters keep successes + failures <= attempts
C30_ResetKeepsOutcome ==
    /\ call.st = "resolved" => ~IsErr(call.pipeline) /\ call.outcome = call.pipeline
    /\ call.st = "rejected" => IsErr(call.pipeline) /\ call.outcome = call.pipeline
    /\ stats.successes + stats.failures <= stats.attempts

====
